---- MODULE Spec2Model ----
(***************************************************************************)
(* A model of the report-generation core of the framework: the plugin      *)
(* registry (src/plugins/plugin-registry.ts), the plugin validator         *)
(* (src/plugins/plugin-config.ts) and the report engine                    *)
(* (src/reports/report-engine.ts).                                         *)
(*                                                                         *)
(* JavaScript values are tagged records [kind, val]; a string is the       *)
(* sequence of its characters, each character a one-element TLA+ string    *)
(* (or a name, for a character TLA+ cannot write).                         *)
(***************************************************************************)
EXTENDS Integers, Sequences, FiniteSets, TLC

VARIABLES
    plugins,        \* PluginRegistry.plugins: the Map id -> plugin instance
    regOutcome,     \* what the last registry call returned or threw
    lastRegistered, \* history: id -> the instance last stored under it by register
    active,         \* the generateReport invocations that may run
    inv,            \* per invocation: the locals of generateReport and its position
    cParts,         \* the pieces the response under coercion was put together from
    cResponse,      \* the response handed to the type coercion
    cType,          \* the declared type of the variable being coerced
    cValue,         \* the value the coercion produced
    cPhase,         \* "input" before the coercion ran, "coerced" after
    validating,     \* the value handed to a validator and the results returned
    ingesting,      \* the locals and the position of one ingestData call
    prompting       \* the context and inputs a prompt context is built from, and it

vars == <<plugins, regOutcome, lastRegistered, active, inv,
          cParts, cResponse, cType, cValue, cPhase, validating, ingesting,
          prompting>>

registryVars == <<plugins, regOutcome, lastRegistered>>
engineVars == <<active, inv>>
coerceVars == <<cParts, cResponse, cType, cValue, cPhase>>

\* no validatePlugin call and no ingestData call is under way
NotValidating == [phase |-> "unused"]
NotIngesting == [pc |-> "unused"]
NotPrompting == [op |-> "unused"]

(***************************************************************************)
(* JavaScript values.                                                      *)
(***************************************************************************)
Tagged(k, v) == [kind |-> k, val |-> v]

Undefined == Tagged("undefined", <<>>)

Null == Tagged("null", <<>>)

Str(chars) == Tagged("string", chars)

Num(digits) == Tagged("number", digits)

Arr(items) == Tagged("array", items)

Obj(fields) == Tagged("object", fields)

IsArray(v) == v.kind = "array"

(***************************************************************************)
(* Characters.                                                             *)
(***************************************************************************)
\* U+0060, the backtick, which a TLA+ string cannot hold
BT == "backtick"
QUOTE == "\""
LBRACKET == "["
RBRACKET == "]"
COMMA == ","
SP == " "
NL == "\n"
\* U+00A0: white space for String.prototype.trim and for \s, but no JSON white space
NBSP == "nbsp"

Digits == {"1", "2"}

\* what String.prototype.trim removes and the regular expression class \s matches
IsWhitespace(c) == c \in {SP, NL, NBSP}

\* the white space JSON.parse accepts between tokens
IsJsonWhitespace(c) == c \in {SP, NL}

\* a character JSON forbids unescaped inside a string literal
IsControl(c) == c = NL

LowerCase ==
    <<"a", "b", "c", "d", "e", "f", "g", "h", "i", "j", "k", "l", "m",
      "n", "o", "p", "q", "r", "s", "t", "u", "v", "w", "x", "y", "z">>

UpperCase ==
    <<"A", "B", "C", "D", "E", "F", "G", "H", "I", "J", "K", "L", "M",
      "N", "O", "P", "Q", "R", "S", "T", "U", "V", "W", "X", "Y", "Z">>

\* the characters the regular expression class \d matches
DecimalDigits == {"0", "1", "2", "3", "4", "5", "6", "7", "8", "9"}

IsLower(c) == \E i \in 1..Len(LowerCase) : LowerCase[i] = c

IsUpper(c) == \E i \in 1..Len(UpperCase) : UpperCase[i] = c

\* String.prototype.toLowerCase, on one character
ToLower(c) ==
    IF IsUpper(c)
    THEN LowerCase[CHOOSE i \in 1..Len(UpperCase) : UpperCase[i] = c]
    ELSE c

\* String.prototype.toUpperCase, on one character
ToUpper(c) ==
    IF IsLower(c)
    THEN UpperCase[CHOOSE i \in 1..Len(LowerCase) : LowerCase[i] = c]
    ELSE c

(***************************************************************************)
(* Strings.                                                                *)
(***************************************************************************)
Drop(s, n) == SubSeq(s, n + 1, Len(s))

Take(s, n) == SubSeq(s, 1, n)

\* the number of leading characters of s that are white space
LeadingWhitespace(s) ==
    LET stops == {i \in 1..Len(s) : ~IsWhitespace(s[i])}
    IN  IF stops = {} THEN Len(s)
        ELSE (CHOOSE i \in stops : \A j \in stops : i <= j) - 1

\* the number of trailing characters of s that are white space
TrailingWhitespace(s) ==
    LET stops == {i \in 1..Len(s) : ~IsWhitespace(s[i])}
    IN  IF stops = {} THEN Len(s)
        ELSE Len(s) - (CHOOSE i \in stops : \A j \in stops : i >= j)

\* String.prototype.trim
Trim(s) ==
    LET lead == LeadingWhitespace(s)
    IN  IF lead = Len(s) THEN <<>>
        ELSE SubSeq(s, lead + 1, Len(s) - TrailingWhitespace(s))

\* whether s starts with prefix, letters compared without case (the /i flag)
StartsWithIgnoreCase(s, prefix) ==
    /\ Len(s) >= Len(prefix)
    /\ \A i \in 1..Len(prefix) : ToLower(s[i]) = ToLower(prefix[i])

EndsWith(s, suffix) ==
    /\ Len(s) >= Len(suffix)
    /\ SubSeq(s, Len(s) - Len(suffix) + 1, Len(s)) = suffix

Lit(chars) == <<QUOTE>> \o chars \o <<QUOTE>>

Brackets(chars) == <<LBRACKET>> \o chars \o <<RBRACKET>>

Fence == <<BT, BT, BT>>

JsonFence == <<BT, BT, BT, "j", "s", "o", "n">>

\* s.replace(/^FENCEjson\s*/i, ""), FENCE being three backticks
StripJsonFence(s) ==
    IF StartsWithIgnoreCase(s, JsonFence)
    THEN LET rest == Drop(s, Len(JsonFence))
         IN  Drop(rest, LeadingWhitespace(rest))
    ELSE s

\* s.replace(/^FENCE\s*/i, "")
StripOpeningFence(s) ==
    IF StartsWithIgnoreCase(s, Fence)
    THEN LET rest == Drop(s, Len(Fence))
         IN  Drop(rest, LeadingWhitespace(rest))
    ELSE s

\* the closing marker taken off only where it stands on a line of its own
StripClosingFenceOnOwnLine(s) ==
    IF EndsWith(s, <<NL>> \o Fence)
    THEN LET rest == Take(s, Len(s) - Len(Fence))
         IN  Take(rest, Len(rest) - TrailingWhitespace(rest))
    ELSE s

\* s.replace(/\s*FENCE$/i, "")
StripClosingFence(s) ==
    IF EndsWith(s, Fence)
    THEN LET rest == Take(s, Len(s) - Len(Fence))
         IN  Take(rest, Len(rest) - TrailingWhitespace(rest))
    ELSE s

\* the three replacements and the trim that generateVariable applies before JSON.parse
CleanResponse(response) ==
    Trim(StripClosingFence(StripOpeningFence(StripJsonFence(Trim(response)))))

(***************************************************************************)
(* JSON.parse, for the texts built from arrays, string literals without    *)
(* escapes and unsigned integers.                                          *)
(***************************************************************************)
ParseFailure == [ok |-> FALSE, value |-> Undefined, next |-> 0]

Parsed(v, n) == [ok |-> TRUE, value |-> v, next |-> n]

\* the first index from i on that holds no JSON white space
RECURSIVE SkipJsonWhitespace(_, _)
SkipJsonWhitespace(s, i) ==
    IF i <= Len(s) /\ IsJsonWhitespace(s[i])
    THEN SkipJsonWhitespace(s, i + 1)
    ELSE i

\* the string literal whose opening quote is s[i]
ParseStringLiteral(s, i) ==
    LET closes == {j \in (i + 1)..Len(s) : s[j] = QUOTE}
    IN  IF closes = {} THEN ParseFailure
        ELSE LET j == CHOOSE c \in closes : \A m \in closes : c <= m
                 body == SubSeq(s, i + 1, j - 1)
             IN  IF \E m \in 1..Len(body) : IsControl(body[m])
                 THEN ParseFailure
                 ELSE Parsed(Str(body), j + 1)

RECURSIVE DigitRunEnd(_, _)
DigitRunEnd(s, i) ==
    IF i <= Len(s) /\ s[i] \in Digits THEN DigitRunEnd(s, i + 1) ELSE i

\* the number whose first digit is s[i]
ParseNumber(s, i) ==
    LET e == DigitRunEnd(s, i)
    IN  Parsed(Num(SubSeq(s, i, e - 1)), e)

RECURSIVE ParseValue(_, _)
RECURSIVE ParseElements(_, _, _)
\* the JSON value that starts at s[i]
ParseValue(s, i) ==
    IF i > Len(s) THEN ParseFailure
    ELSE IF s[i] = QUOTE THEN ParseStringLiteral(s, i)
    ELSE IF s[i] \in Digits THEN ParseNumber(s, i)
    ELSE IF s[i] = LBRACKET
         THEN LET j == SkipJsonWhitespace(s, i + 1)
              IN  IF j <= Len(s) /\ s[j] = RBRACKET
                  THEN Parsed(Arr(<<>>), j + 1)
                  ELSE ParseElements(s, j, <<>>)
    ELSE ParseFailure

\* the rest of an array: an element is due at s[i], items are the elements before it
ParseElements(s, i, items) ==
    LET r == ParseValue(s, i)
    IN  IF ~r.ok THEN ParseFailure
        ELSE LET j == SkipJsonWhitespace(s, r.next)
                 got == Append(items, r.value)
             IN  IF j > Len(s) THEN ParseFailure
                 ELSE IF s[j] = RBRACKET THEN Parsed(Arr(got), j + 1)
                 ELSE IF s[j] = COMMA
                      THEN ParseElements(s, SkipJsonWhitespace(s, j + 1), got)
                 ELSE ParseFailure

\* JSON.parse(s): ok is FALSE where JSON.parse throws a SyntaxError
JSONParse(s) ==
    LET r == ParseValue(s, SkipJsonWhitespace(s, 1))
    IN  IF r.ok /\ SkipJsonWhitespace(s, r.next) = Len(s) + 1
        THEN r
        ELSE ParseFailure

(***************************************************************************)
(* generateVariable: the coercion of the client's response to the          *)
(* variable's declared type.                                               *)
(***************************************************************************)
VarTypes == {"string_list", "markdown", "text"}

\* the fallback made of the cleaned text instead of the trimmed response
CoerceResponseFromCleaned(type, response) ==
    IF type = "string_list"
    THEN LET parsed == JSONParse(CleanResponse(response))
         IN  IF parsed.ok /\ IsArray(parsed.value) THEN parsed.value
             ELSE Arr(<<Str(CleanResponse(response))>>)
    ELSE IF type = "markdown" THEN Str(Trim(response))
    ELSE Str(response)

CoerceResponse(type, response) ==
    IF type = "string_list"
    THEN LET parsed == JSONParse(CleanResponse(response))
         IN  IF parsed.ok /\ IsArray(parsed.value)
             THEN parsed.value
             ELSE Arr(<<Str(Trim(response))>>)
    ELSE IF type = "markdown" THEN Str(Trim(response))
    ELSE Str(response)

(***************************************************************************)
(* Plugins.  A plugin instance is a record: inst tells two instances with  *)
(* the same fields apart; a property the plugin lacks is "" (id, version,  *)
(* description) or FALSE (a method).                                       *)
(***************************************************************************)
PluginIds == {"patent", "pubmed"}

MaxInstances == 2

Capabilities == [file : BOOLEAN, api : BOOLEAN, fileFormats : BOOLEAN, apiEndpoints : BOOLEAN]

\* checks that pass over a missing ingestFromFile, and over a missing getPromptsDir
WhenButIngestFromFile(cond, message) ==
    IF cond /\ message # "ingestFromFile" THEN <<message>> ELSE <<>>

WhenButGetPromptsDir(cond, message) ==
    IF cond /\ message # "getPromptsDir" THEN <<message>> ELSE <<>>

\* if (cond) list.push(message)
When(cond, message) == IF cond THEN <<message>> ELSE <<>>

\* a result that is valid only without warnings
ValidationCountingWarnings(errors, warnings) ==
    [valid |-> Len(errors) = 0 /\ Len(warnings) = 0,
     errors |-> errors, warnings |-> warnings]

\* the return of lines 491-495
Validation(errors, warnings) ==
    [valid |-> Len(errors) = 0, errors |-> errors, warnings |-> warnings]

\* validatePlugin: the result {valid, errors, warnings}; a message is named by what
\* it is about, the plugin id that the code puts into it left out
validatePlugin(plugin) ==
    LET identity ==
            When(plugin.id = "", "id")
            \o When(plugin.version = "", "version")
            \o When(plugin.description = "", "description")
        capabilities == plugin.capabilities
        ingestion ==
            When(~capabilities.file /\ ~capabilities.api, "ingestion method")
            \o When(capabilities.file /\ ~plugin.ingestFromFile, "ingestFromFile")
            \o When(capabilities.api /\ ~plugin.ingestFromAPI, "ingestFromAPI")
        methods ==
            When(~plugin.generate, "generate")
            \o When(~plugin.getSpecifications, "getSpecifications")
            \o When(~plugin.getPromptsDir, "getPromptsDir")
            \o When(~plugin.getTemplatesDir, "getTemplatesDir")
        warnings ==
            When(capabilities.file /\ ~capabilities.fileFormats, "fileFormats")
            \o When(~capabilities.file /\ plugin.ingestFromFile, "ingestFromFile undeclared")
            \o When(capabilities.api /\ ~plugin.getAPIQuerySchema, "getAPIQuerySchema")
            \o When(capabilities.api /\ ~capabilities.apiEndpoints, "apiEndpoints")
            \o When(~capabilities.api /\ plugin.ingestFromAPI, "ingestFromAPI undeclared")
    IN  IF plugin.getIngestionCapabilities = "missing"
        THEN [valid |-> FALSE,
              errors |-> identity \o <<"getIngestionCapabilities">>,
              warnings |-> <<>>]
        ELSE IF plugin.getIngestionCapabilities = "throws"
        THEN [valid |-> FALSE,
              errors |-> identity \o <<"getIngestionCapabilities threw">>,
              warnings |-> <<>>]
        ELSE LET errors == identity \o ingestion \o methods
             IN  Validation(errors, warnings)

(***************************************************************************)
(* PluginRegistry.  The Map is the sequence of its entries, in insertion   *)
(* order.                                                                  *)
(***************************************************************************)
EmptyCatalog == <<>>

MapHas(map, key) == \E n \in 1..Len(map) : map[n].key = key

MapGet(map, key) ==
    IF MapHas(map, key)
    THEN map[CHOOSE n \in 1..Len(map) : map[n].key = key].value
    ELSE Undefined

\* Map.prototype.set: a present key keeps its place
MapSet(map, key, value) ==
    IF MapHas(map, key)
    THEN [n \in 1..Len(map) |->
             IF map[n].key = key THEN [key |-> key, value |-> value] ELSE map[n]]
    ELSE Append(map, [key |-> key, value |-> value])

MapDelete(map, key) == SelectSeq(map, LAMBDA e : e.key # key)

MapSize(map) == Len(map)

\* what a registry call did: its result or the error it threw, and what it wrote
\* to the console
Returned(op, arg, value, log) ==
    [op |-> op, arg |-> arg, threw |-> FALSE, value |-> value, error |-> Undefined,
     log |-> log]

Threw(op, arg, error) ==
    [op |-> op, arg |-> arg, threw |-> TRUE, value |-> Undefined, error |-> error,
     log |-> <<>>]

NoCall == Returned("none", Undefined, Undefined, <<>>)

PluginValidationError(pluginId, errors) ==
    [name |-> "PluginValidationError", pluginId |-> pluginId, errors |-> errors]

NoneRegistered == [id \in PluginIds |-> Undefined]

\* the console output of a register that stores the plugin
RegisterLog(plugin, validation) ==
    When(Len(validation.warnings) > 0, "validation warnings")
    \o When(MapHas(plugins, plugin.id), "already registered, overwriting")
    \o <<"registered">>

\* register, storing the plugin before it validates it
registerStoringFirst(plugin) ==
    LET validation == validatePlugin(plugin)
    IN  /\ plugins' = MapSet(plugins, plugin.id, plugin)
        /\ regOutcome' =
               IF validation.valid
               THEN Returned("register", plugin, Undefined, RegisterLog(plugin, validation))
               ELSE Threw("register", plugin,
                          PluginValidationError(plugin.id, validation.errors))
        /\ lastRegistered' =
               IF validation.valid
               THEN [lastRegistered EXCEPT ![plugin.id] = plugin]
               ELSE lastRegistered

\* register, refusing an id that is registered
registerRefusingDuplicate(plugin) ==
    LET validation == validatePlugin(plugin)
    IN  IF validation.valid /\ ~MapHas(plugins, plugin.id)
        THEN /\ plugins' = MapSet(plugins, plugin.id, plugin)
             /\ regOutcome' =
                    Returned("register", plugin, Undefined, RegisterLog(plugin, validation))
             /\ lastRegistered' = [lastRegistered EXCEPT ![plugin.id] = plugin]
        ELSE /\ regOutcome' =
                    Threw("register", plugin,
                          IF validation.valid
                          THEN [name |-> "Error"]
                          ELSE PluginValidationError(plugin.id, validation.errors))
             /\ UNCHANGED <<plugins, lastRegistered>>

register(plugin) ==
    LET validation == validatePlugin(plugin)
    IN  IF ~validation.valid
        THEN /\ regOutcome' =
                    Threw("register", plugin,
                          PluginValidationError(plugin.id, validation.errors))
             /\ UNCHANGED <<plugins, lastRegistered>>
        ELSE /\ plugins' = MapSet(plugins, plugin.id, plugin)
             /\ regOutcome' =
                    Returned("register", plugin, Undefined, RegisterLog(plugin, validation))
             /\ lastRegistered' = [lastRegistered EXCEPT ![plugin.id] = plugin]

\* unregister, answering true whatever the catalog held
unregisterAnsweringTrue(pluginId) ==
    /\ plugins' = MapDelete(plugins, pluginId)
    /\ regOutcome' = Returned("unregister", pluginId, TRUE, <<"unregistered">>)
    /\ lastRegistered' =
           [id \in PluginIds |->
               IF id = pluginId THEN Undefined ELSE lastRegistered[id]]

unregister(pluginId) ==
    /\ plugins' = MapDelete(plugins, pluginId)
    /\ regOutcome' =
           Returned("unregister", pluginId, MapHas(plugins, pluginId),
                    When(MapHas(plugins, pluginId), "unregistered"))
    /\ lastRegistered' =
           [id \in PluginIds |->
               IF id = pluginId THEN Undefined ELSE lastRegistered[id]]

\* getPlugin, failing for an id that is not registered
getPluginThrowingWhenAbsent(pluginId) ==
    /\ regOutcome' =
           IF MapHas(plugins, pluginId)
           THEN Returned("getPlugin", pluginId, MapGet(plugins, pluginId), <<>>)
           ELSE Threw("getPlugin", pluginId, [name |-> "Error"])
    /\ UNCHANGED <<plugins, lastRegistered>>

getPlugin(pluginId) ==
    /\ regOutcome' = Returned("getPlugin", pluginId, MapGet(plugins, pluginId), <<>>)
    /\ UNCHANGED <<plugins, lastRegistered>>

clear ==
    /\ plugins' = EmptyCatalog
    /\ regOutcome' = Returned("clear", Undefined, Undefined, <<"all plugins cleared">>)
    /\ lastRegistered' = NoneRegistered

hasPlugin(pluginId) ==
    /\ regOutcome' = Returned("hasPlugin", pluginId, MapHas(plugins, pluginId), <<>>)
    /\ UNCHANGED <<plugins, lastRegistered>>

\* Array.from(this.plugins.values())
listPlugins ==
    /\ regOutcome' =
           Returned("listPlugins", Undefined,
                    [n \in 1..Len(plugins) |-> plugins[n].value], <<>>)
    /\ UNCHANGED <<plugins, lastRegistered>>

\* the counts of getStats after the first n entries of the Map, with two
\* independent tests in place of the if / else if chain
CountsCountingTwice(n) ==
    LET reports(m, method) == plugins[m].value.capabilities[method]
        count(method) == Cardinality({m \in 1..n : reports(m, method)})
    IN  [filePlugins |-> count("file"),
         apiPlugins |-> count("api"),
         hybridPlugins |-> Cardinality({m \in 1..n : reports(m, "file") /\ reports(m, "api")})]

RECURSIVE Counts(_)
\* the counts of getStats after the first n entries of the Map
Counts(n) ==
    IF n = 0 THEN [filePlugins |-> 0, apiPlugins |-> 0, hybridPlugins |-> 0]
    ELSE LET capabilities == plugins[n].value.capabilities
             before == Counts(n - 1)
         IN  IF capabilities.file /\ capabilities.api
             THEN [before EXCEPT !.hybridPlugins = @ + 1]
             ELSE IF capabilities.file
             THEN [before EXCEPT !.filePlugins = @ + 1]
             ELSE IF capabilities.api
             THEN [before EXCEPT !.apiPlugins = @ + 1]
             ELSE before

\* getStats throws what a plugin's getIngestionCapabilities throws, and a
\* TypeError for a plugin that has no such method
getStats ==
    /\ regOutcome' =
           IF \E n \in 1..Len(plugins) :
                  plugins[n].value.getIngestionCapabilities # "returns"
           THEN Threw("getStats", Undefined, [name |-> "Error"])
           ELSE Returned("getStats", Undefined,
                         [totalPlugins |-> MapSize(plugins),
                          filePlugins |-> Counts(Len(plugins)).filePlugins,
                          apiPlugins |-> Counts(Len(plugins)).apiPlugins,
                          hybridPlugins |-> Counts(Len(plugins)).hybridPlugins],
                         <<>>)
    /\ UNCHANGED <<plugins, lastRegistered>>

(***************************************************************************)
(* Values the engine reads: property access, truthiness, bundles.          *)
(***************************************************************************)
\* the decimal numerals of the small numbers, from 0
Numerals == <<"0", "1", "2", "3">>

\* value?.[key]: undefined on undefined and null, and on a value that has no such
\* property; an array has its elements under their indices, and its length
Prop(value, key) ==
    IF value.kind = "object" /\ key \in DOMAIN value.val
    THEN value.val[key]
    ELSE IF value.kind = "array" /\ \E i \in 1..Len(value.val) : Numerals[i] = key
    THEN value.val[CHOOSE i \in 1..Len(value.val) : Numerals[i] = key]
    ELSE IF value.kind = "array" /\ key = "length"
    THEN Num(<<Numerals[Len(value.val) + 1]>>)
    ELSE Undefined

\* !!value
Truthy(value) ==
    CASE value.kind \in {"undefined", "null"} -> FALSE
      [] value.kind = "string" -> Len(value.val) > 0
      [] value.kind = "number" -> value.val # <<"0">>
      [] OTHER -> TRUE

\* a || b
Or(a, b) == IF Truthy(a) THEN a ELSE b

Record1 == Obj([title |-> Str(<<"first">>)])

Record2 == Obj([title |-> Str(<<"second">>)])

Bundles ==
    { Obj([source |-> Str(<<"patent">>),
           records |-> Arr(<<Record1, Record2>>),
           stats |-> Obj([total |-> Num(<<"2">>)]),
           metadata |-> Obj([source_file |-> Str(<<"patents.csv">>),
                             record_count |-> Num(<<"2">>),
                             ingestion_method |-> Str(<<"file">>)]),
           samples |-> Obj([main |-> Arr(<<Record1>>)])]),
      Obj([source |-> Str(<<"pubmed">>),
           records |-> Arr(<<>>),
           stats |-> Obj(<<>>),
           metadata |-> Obj([source_file |-> Str(<<"query">>),
                             record_count |-> Num(<<>>)])]) }

LLMConfigs == {[provider |-> "openai", model |-> "gpt", apiKey |-> "key"]}

(***************************************************************************)
(* Specifications.  A serialized specification is told by what yaml.load   *)
(* makes of it; an input reference is the sequence of its dotted parts.    *)
(***************************************************************************)
MaxVariables == 3

VariableDefinitions ==
    { [name |-> "summary", type |-> "text", prompt_file |-> "summary.md",
       inputs |-> <<>>],
      [name |-> "summary", type |-> "markdown", prompt_file |-> "summary.md",
       inputs |-> << <<"bundle", "samples", "main">> >>],
      [name |-> "topics", type |-> "string_list", prompt_file |-> "topics.md",
       inputs |-> << <<"ctx", "summary">> >>],
      [name |-> "bundle", type |-> "text", prompt_file |-> "bundle.md",
       inputs |-> << <<"bundle", "stats">>, <<"title">> >>] }

VariableLists == UNION {[1..n -> VariableDefinitions] : n \in 0..MaxVariables}

SerializedSpecs ==
    \* "": the empty string
    {[form |-> "empty string", parsed |-> Undefined]}
    \* text that is no YAML
    \cup {[form |-> "malformed", parsed |-> Undefined]}
    \* white space, a comment, null: a document without content
    \cup {[form |-> "no content", parsed |-> Undefined]}
    \* {} and a mapping that has no variables key
    \cup {[form |-> "mapping", parsed |-> Obj(<<>>)],
          [form |-> "mapping",
           parsed |-> Obj([id |-> "default", template_file |-> "report.md"])]}
    \cup {[form |-> "mapping",
           parsed |-> Obj([id |-> "default", template_file |-> "report.md",
                           variables |-> list])] : list \in VariableLists}

\* yaml.load
yamlLoad(text) ==
    IF text.form = "malformed"
    THEN [threw |-> TRUE, value |-> Undefined]
    ELSE [threw |-> FALSE, value |-> text.parsed]

SpecificationIds == {"default", "missing"}

\* what getSpecifications may return: no entry, or one under the key "default"
SpecificationTables ==
    {<<>>} \cup {[id \in {"default"} |-> text] : text \in SerializedSpecs}

(***************************************************************************)
(* ReportEngine.resolveInputReference and the prompt context.              *)
(***************************************************************************)
\* what a property read of undefined or null throws
Thrown == Tagged("thrown", <<"TypeError">>)

RECURSIVE WalkUnguarded(_, _, _)
\* the loop with value[parts[i]] in place of value?.[parts[i]]
WalkUnguarded(value, parts, i) ==
    IF i > Len(parts) THEN value
    ELSE IF value.kind \in {"undefined", "null", "thrown"} THEN Thrown
    ELSE WalkUnguarded(Prop(value, parts[i]), parts, i + 1)

RECURSIVE Walk(_, _, _)
\* the loop value = value?.[parts[i]] from part i on
Walk(value, parts, i) ==
    IF i > Len(parts) THEN value ELSE Walk(Prop(value, parts[i]), parts, i + 1)

\* the reference that reference.split(".") has the given parts for
Dotted(parts) ==
    LET join[n \in 1..Len(parts)] ==
            IF n = 1 THEN parts[1] ELSE join[n - 1] \o "." \o parts[n]
    IN  join[Len(parts)]

\* context[reference]: the key is the whole reference, dots and all
Lookup(context, parts) ==
    IF Dotted(parts) \in DOMAIN context
    THEN context[Dotted(parts)]
    ELSE Undefined

resolveInputReference(parts, context) ==
    IF parts[1] = "bundle" THEN Walk(context["bundle"], parts, 2)
    ELSE IF parts[1] = "ctx" THEN Walk(Obj(context), parts, 2)
    ELSE Lookup(context, parts)

\* the last segment, whatever the number of segments
ShortNameLast(parts) == parts[Len(parts)]

\* the key an input is bound under
ShortName(parts) ==
    IF Len(parts) > 2 THEN parts[Len(parts) - 1] ELSE parts[Len(parts)]

RECURSIVE BindInputs(_, _, _, _)
\* the loop over varDef.inputs, from input n on
BindInputs(promptContext, inputs, n, context) ==
    IF n > Len(inputs) THEN promptContext
    ELSE BindInputs(
             (ShortName(inputs[n]) :> resolveInputReference(inputs[n], context))
                 @@ promptContext,
             inputs, n + 1, context)

\* the keys of the context that the last loop of the prompt context leaves out
NotOverlaid == {"bundle", "stats", "samples", "timestamp"}

\* the object literal of lines 212-217
BaseContext(context) ==
    LET bundle == context["bundle"]
    IN  [bundle |-> bundle,
         stats |-> Prop(bundle, "stats"),
         samples |-> Or(Prop(Prop(bundle, "samples"), "main"), Prop(bundle, "samples")),
         metadata |-> Prop(bundle, "metadata")]

\* lines 211-238 of generateVariable
PromptContext(varDef, context) ==
    LET bound == BindInputs(BaseContext(context), varDef.inputs, 1, context)
        overlay == [key \in DOMAIN context \ NotOverlaid |-> context[key]]
    IN  overlay @@ bound

\* env.renderString(template, context), where it does not throw: the text is told
\* by the template file and the context it was rendered against
Rendering(file, context) == [template |-> file, context |-> context]

Capitalized(pluginId) ==
    CASE pluginId = "patent" -> "Patent"
      [] pluginId = "pubmed" -> "Pubmed"
      [] OTHER -> "Unknown"

\* lines 337-346 of generateReport
InitialContext(options) ==
    [bundle |-> options.bundle,
     stats |-> Prop(options.bundle, "stats"),
     samples |-> Prop(options.bundle, "samples"),
     timestamp |-> Str(<<"now">>),
     title |-> Str(<<Capitalized(options.pluginId), " Analysis Report">>)]

(***************************************************************************)
(* ReportEngine.generateReport.  An invocation holds the locals of         *)
(* generateReport and of the generateVariable it is in; pc is the await it *)
(* is suspended at ("idle" before the call, "returned" and "threw" after   *)
(* it).  started, calls, pending, responses, stored, reads and rendered    *)
(* record what the invocation has done; bundle is the caller's bundle      *)
(* object as it is now.                                                    *)
(***************************************************************************)
Invocations == {1, 2}

IdleInvocation ==
    [pc |-> "idle",
     options |-> Undefined,
     bundle |-> Undefined,
     plugin |-> Undefined,
     promptsDir |-> "",
     templatesDir |-> "",
     specifications |-> <<>>,
     spec |-> Undefined,
     llmClient |-> Undefined,
     context |-> <<>>,
     position |-> 0,
     started |-> <<>>,
     calls |-> <<>>,
     pending |-> 0,
     responses |-> <<>>,
     stored |-> <<>>,
     reads |-> <<>>,
     rendered |-> FALSE,
     result |-> Undefined,
     error |-> Undefined]

Options ==
    [pluginId : PluginIds \cup {"unknown"},
     llmConfig : LLMConfigs,
     specificationId : SpecificationIds,
     bundle : Bundles]

\* an Error the engine itself throws
EngineError(message) == [name |-> "Error", message |-> message]

\* an error raised by a collaborator (the plugin, the file system, the template
\* engine, the YAML parser, the generation client), told by the call that raised it
ErrorFrom(call) == [name |-> "raised", message |-> call]

\* the TypeError of for...of over undefined
NotIterable == [name |-> "TypeError", message |-> "spec.variables is not iterable"]

\* the error recorded and the invocation left where it was
ThrowAndGoOn(r, error) == [r EXCEPT !.error = error]

\* an assignment that reaches the bundle through the prompt context as well
AssignThroughPromptContext(bundle, object, key, value) ==
    IF object \in {"bundle", "promptContext"}
    THEN Obj((key :> value) @@ bundle.val)
    ELSE bundle

\* the bundle after object[key] = value.  The engine assigns to the properties of
\* two objects, the context (line 361) and the prompt context (lines 225 and 236);
\* both are object literals of its own (lines 338 and 212), not the bundle
Assign(bundle, object, key, value) ==
    IF object = "bundle" THEN Obj((key :> value) @@ bundle.val) ELSE bundle

RECURSIVE AssignInputs(_, _, _, _)
\* the bundle after the assignments of the loop over varDef.inputs, from input n on
AssignInputs(bundle, inputs, n, context) ==
    IF n > Len(inputs) THEN bundle
    ELSE AssignInputs(
             Assign(bundle, "promptContext", ShortName(inputs[n]),
                    resolveInputReference(inputs[n], context)),
             inputs, n + 1, context)

RECURSIVE AssignOverlay(_, _, _)
\* the bundle after the assignments of the loop over the entries of the context
AssignOverlay(bundle, keys, context) ==
    IF keys = {} THEN bundle
    ELSE LET key == CHOOSE k \in keys : TRUE
         IN  AssignOverlay(Assign(bundle, "promptContext", key, context[key]),
                           keys \ {key}, context)

\* a throw that nothing catches: the promise of generateReport rejects
Throw(r, error) == [r EXCEPT !.pc = "threw", !.error = error]

\* an engine that keeps one context for all its invocations
UpdateSharingContext(i, r) ==
    inv' = [j \in DOMAIN inv |->
                IF j = i THEN r ELSE [inv[j] EXCEPT !.context = r.context]]

\* the locals of invocation i become r; the locals of the others stay
Update(i, r) == inv' = [inv EXCEPT ![i] = r]

Variables(r) == r.spec.val.variables

\* the loop left before its last variable
LoopLeavingEarly(r, n) ==
    IF n >= Len(Variables(r))
    THEN [r EXCEPT !.pc = "readTemplate"]
    ELSE [r EXCEPT !.position = n, !.started = Append(@, n), !.pc = "readPrompt"]

\* the loop sending the first variable to the client a second time
LoopRetrying(r, n) ==
    IF n = 2 /\ Len(r.calls) = 1
    THEN [r EXCEPT !.position = 1, !.started = Append(@, 1), !.pc = "readPrompt"]
    ELSE IF n > Len(Variables(r))
    THEN [r EXCEPT !.pc = "readTemplate"]
    ELSE [r EXCEPT !.position = n, !.started = Append(@, n), !.pc = "readPrompt"]

\* the loop of generateReport at position n: generateVariable up to its await of
\* the prompt file, or past the last variable the await of the template file
LoopFrom(r, n) ==
    IF n > Len(Variables(r))
    THEN [r EXCEPT !.pc = "readTemplate"]
    ELSE [r EXCEPT !.position = n, !.started = Append(@, n), !.pc = "readPrompt"]

\* lines 280-287: options, getPlugin, and the await of plugin.initialize
Start(i) ==
    /\ i \in active
    /\ inv[i].pc = "idle"
    /\ \E options \in Options :
           LET plugin == MapGet(plugins, options.pluginId)
               r == [inv[i] EXCEPT !.options = options, !.bundle = options.bundle]
           IN  IF ~MapHas(plugins, options.pluginId)
               THEN Update(i, Throw(r, EngineError("Plugin not found")))
               ELSE Update(i, [r EXCEPT !.plugin = plugin, !.pc = "initialize"])
    /\ UNCHANGED <<registryVars, active, coerceVars, validating, ingesting, prompting>>

\* plugin.initialize rejects
InitializeFails(i) ==
    /\ i \in active
    /\ inv[i].pc = "initialize"
    /\ inv[i].plugin.initialize
    /\ Update(i, Throw(inv[i], ErrorFrom("initialize")))
    /\ UNCHANGED <<registryVars, active, coerceVars, validating, ingesting, prompting>>

\* lines 302-362 for a specification text that is there: yaml.load, the client,
\* the context, and the loop up to its first await
LoadSpecification(r, specYaml) ==
    LET loaded == yamlLoad(specYaml)
        spec == loaded.value
        ready == [r EXCEPT !.spec = spec,
                           !.llmClient = [config |-> r.options.llmConfig],
                           !.context = InitialContext(r.options)]
    IN  IF loaded.threw THEN Throw(r, ErrorFrom("yaml.load"))
        ELSE IF ~Truthy(spec)
        THEN Throw(r, EngineError("Failed to parse specification"))
        ELSE IF "variables" \notin DOMAIN spec.val THEN Throw(ready, NotIterable)
        ELSE LoopFrom(ready, 1)

NoText == [form |-> "undefined", parsed |-> Undefined]

\* a lookup that takes the table's only entry when the id is no key of it
SpecificationTextOrOnly(specifications, id) ==
    IF id \in DOMAIN specifications THEN specifications[id]
    ELSE IF DOMAIN specifications # {}
    THEN specifications[CHOOSE key \in DOMAIN specifications : TRUE]
    ELSE NoText

\* specifications[specificationId]
SpecificationText(specifications, id) ==
    IF id \in DOMAIN specifications THEN specifications[id] ELSE NoText

\* !specYaml: undefined and the empty string
NoSpecification(specYaml) == specYaml.form \in {"undefined", "empty string"}

\* the directories asked of the instance the registry holds now, not of the one
\* the invocation resolved
PrepareFromRegistry(i) ==
    /\ i \in active
    /\ inv[i].pc = "initialize"
    /\ \E specifications \in SpecificationTables :
           LET current == IF MapHas(plugins, inv[i].options.pluginId)
                          THEN MapGet(plugins, inv[i].options.pluginId)
                          ELSE inv[i].plugin
               r == [inv[i] EXCEPT !.promptsDir = current.promptsDir,
                                   !.templatesDir = current.templatesDir,
                                   !.specifications = specifications]
               specYaml == SpecificationText(specifications, r.options.specificationId)
           IN  IF NoSpecification(specYaml)
               THEN Update(i, Throw(r, EngineError("Specification not found")))
               ELSE Update(i, LoadSpecification(r, specYaml))
    /\ UNCHANGED <<registryVars, active, coerceVars, validating, ingesting, prompting>>

\* lines 289-362: the directories, the specification table and the lookup in it
Prepare(i) ==
    /\ i \in active
    /\ inv[i].pc = "initialize"
    /\ \E specifications \in SpecificationTables :
           LET r == [inv[i] EXCEPT !.promptsDir = inv[i].plugin.promptsDir,
                                   !.templatesDir = inv[i].plugin.templatesDir,
                                   !.specifications = specifications]
               specYaml == SpecificationText(specifications, r.options.specificationId)
           IN  IF NoSpecification(specYaml)
               THEN Update(i, Throw(r, EngineError("Specification not found")))
               ELSE Update(i, LoadSpecification(r, specYaml))
    /\ UNCHANGED <<registryVars, active, coerceVars, validating, ingesting, prompting>>

VarDef(r) == Variables(r)[r.position]

PromptPath(r) == <<r.promptsDir, VarDef(r).prompt_file>>

TemplatePath(r) == <<r.templatesDir, r.spec.val.template_file>>

\* fs.readFile of the prompt file rejects
PromptReadFails(i) ==
    /\ i \in active
    /\ inv[i].pc = "readPrompt"
    /\ Update(i, Throw(inv[i], ErrorFrom("readFile")))
    /\ UNCHANGED <<registryVars, active, coerceVars, validating, ingesting, prompting>>

\* the prompt file is read, and env.renderString throws on it
PromptRenderFails(i) ==
    /\ i \in active
    /\ inv[i].pc = "readPrompt"
    /\ Update(i, Throw([inv[i] EXCEPT !.reads = Append(@, PromptPath(inv[i]))],
                       ErrorFrom("renderString")))
    /\ UNCHANGED <<registryVars, active, coerceVars, validating, ingesting, prompting>>

\* lines 209-244: the prompt file is read, the prompt context built, the prompt
\* rendered and handed to the client
CallClient(i) ==
    /\ i \in active
    /\ inv[i].pc = "readPrompt"
    /\ LET r == inv[i]
           prompt == Rendering(PromptPath(r), PromptContext(VarDef(r), r.context))
       IN  Update(i, [r EXCEPT !.reads = Append(@, PromptPath(r)),
                               !.calls = Append(@, [position |-> r.position,
                                                    prompt |-> prompt]),
                               !.pending = @ + 1,
                               !.bundle =
                                   AssignOverlay(
                                       AssignInputs(@, VarDef(r).inputs, 1, r.context),
                                       DOMAIN r.context \ NotOverlaid, r.context),
                               !.pc = "generateText"])
    /\ UNCHANGED <<registryVars, active, coerceVars, validating, ingesting, prompting>>

\* llmClient.generateText rejects
ClientFails(i) ==
    /\ i \in active
    /\ inv[i].pc = "generateText"
    /\ Update(i, Throw([inv[i] EXCEPT !.pending = @ - 1], ErrorFrom("generateText")))
    /\ UNCHANGED <<registryVars, active, coerceVars, validating, ingesting, prompting>>

\* responses of the client: a fenced JSON array, a JSON string, fenced text that is
\* no JSON
EngineResponses ==
    { JsonFence \o <<NL>> \o Brackets(Lit(<<"a">>) \o <<COMMA>> \o Lit(<<"b">>))
          \o <<NL>> \o Fence,
      Lit(<<"a">>),
      Fence \o <<NL, "a", NL>> \o Fence \o <<NL>> }

\* a variable's name kept at its first value
StoreOnce(context, varDef, value) ==
    IF varDef.name \in DOMAIN context THEN context
    ELSE (varDef.name :> value) @@ context

\* context[varDef.name] = value
Store(context, varDef, value) == (varDef.name :> value) @@ context

\* lines 244-271 and 354-362: the response is coerced, stored in the context under
\* the variable's name, and the loop goes on
ClientResponds(i) ==
    /\ i \in active
    /\ inv[i].pc = "generateText"
    /\ \E response \in EngineResponses :
           LET r == inv[i]
               value == CoerceResponse(VarDef(r).type, response)
               stored == [r EXCEPT !.pending = @ - 1,
                                   !.responses = Append(@, response),
                                   !.stored = Append(@, value),
                                   !.context = Store(@, VarDef(r), value),
                                   !.bundle =
                                       Assign(@, "context", VarDef(r).name, value)]
           IN  Update(i, LoopFrom(stored, r.position + 1))
    /\ UNCHANGED <<registryVars, active, coerceVars, validating, ingesting, prompting>>

\* fs.readFile of the template file rejects
TemplateReadFails(i) ==
    /\ i \in active
    /\ inv[i].pc = "readTemplate"
    /\ Update(i, Throw(inv[i], ErrorFrom("readFile")))
    /\ UNCHANGED <<registryVars, active, coerceVars, validating, ingesting, prompting>>

\* the template file is read, and env.renderString throws on it
TemplateRenderFails(i) ==
    /\ i \in active
    /\ inv[i].pc = "readTemplate"
    /\ Update(i, Throw([inv[i] EXCEPT !.reads = Append(@, TemplatePath(inv[i]))],
                       ErrorFrom("renderString")))
    /\ UNCHANGED <<registryVars, active, coerceVars, validating, ingesting, prompting>>

\* lines 364-381: the template is rendered against the context and the result returned
Return(i) ==
    /\ i \in active
    /\ inv[i].pc = "readTemplate"
    /\ LET r == inv[i]
           bundle == r.options.bundle
           result ==
               [content |-> [trimmed |-> Rendering(TemplatePath(r), r.context)],
                metadata |->
                    [pluginId |-> r.options.pluginId,
                     provider |-> r.options.llmConfig.provider,
                     model |-> r.options.llmConfig.model,
                     generatedAt |-> Str(<<"now">>),
                     recordCount |-> Len(Prop(bundle, "records").val),
                     ingestionMethod |->
                         Prop(Prop(bundle, "metadata"), "ingestion_method")]]
       IN  Update(i, [r EXCEPT !.reads = Append(@, TemplatePath(r)),
                               !.rendered = TRUE,
                               !.result = result,
                               !.pc = "returned"])
    /\ UNCHANGED <<registryVars, active, coerceVars, validating, ingesting, prompting>>

\* the plugins of the engine's runs: one with an initialize hook, one without
EnginePlugin(id, hook) ==
    [inst |-> 1, id |-> id, version |-> "1.0.0", description |-> "plugin",
     getIngestionCapabilities |-> "returns",
     capabilities |-> [file |-> TRUE, api |-> FALSE,
                       fileFormats |-> TRUE, apiEndpoints |-> FALSE],
     ingestFromFile |-> TRUE, ingestFromAPI |-> FALSE, getAPIQuerySchema |-> FALSE,
     generate |-> TRUE, getSpecifications |-> TRUE, getPromptsDir |-> TRUE,
     getTemplatesDir |-> TRUE,
     promptsDir |-> "prompts", templatesDir |-> "templates",
     initialize |-> hook]

\* the catalog after register of the two plugins
EngineCatalog ==
    MapSet(MapSet(EmptyCatalog, "patent", EnginePlugin("patent", TRUE)),
           "pubmed", EnginePlugin("pubmed", FALSE))

Init ==
    /\ plugins \in {EmptyCatalog, EngineCatalog}
    /\ regOutcome = NoCall
    /\ lastRegistered = [id \in PluginIds |-> MapGet(plugins, id)]
    /\ active = {1}
    /\ inv = [i \in Invocations |-> IdleInvocation]
    /\ cParts = Undefined
    /\ cResponse = <<>>
    /\ cType = "text"
    /\ cValue = Undefined
    /\ cPhase = "unused"
    /\ validating = NotValidating
    /\ ingesting = NotIngesting
    /\ prompting = NotPrompting

Next ==
    \E i \in Invocations :
        \/ Start(i)
        \/ InitializeFails(i)
        \/ Prepare(i)
        \/ PromptReadFails(i)
        \/ PromptRenderFails(i)
        \/ CallClient(i)
        \/ ClientFails(i)
        \/ ClientResponds(i)
        \/ TemplateReadFails(i)
        \/ TemplateRenderFails(i)
        \/ Return(i)

Spec == Init /\ [][Next]_vars

(***************************************************************************)
(* Two invocations of generateReport on one engine and one registry,       *)
(* interleaved at their awaits.  The callers ask for one of two            *)
(* specifications of one or two variables.                                 *)
(***************************************************************************)
ConcurrentLists ==
    LET summary == [name |-> "summary", type |-> "text", prompt_file |-> "summary.md",
                    inputs |-> <<>>]
        topics == [name |-> "topics", type |-> "string_list",
                   prompt_file |-> "topics.md", inputs |-> << <<"ctx", "summary">> >>]
    IN  {<<topics>>, <<summary, topics>>}

ConcurrentTables ==
    {[id \in {"default"} |->
          [form |-> "mapping",
           parsed |-> Obj([id |-> "default", template_file |-> "report.md",
                           variables |-> list])]] : list \in ConcurrentLists}

ConcurrentOptions ==
    [pluginId : {"patent"}, llmConfig : LLMConfigs, specificationId : {"default"},
     bundle : Bundles]

\* what the callers and the plugin hand to the two invocations
ConcurrentInputs ==
    \A i \in Invocations :
        /\ inv[i].pc # "idle" => inv[i].options \in ConcurrentOptions
        /\ inv[i].pc \notin {"idle", "initialize"} =>
               \/ inv[i].specifications \in ConcurrentTables
               \/ inv[i].error = ErrorFrom("initialize")

InitConcurrent ==
    /\ plugins = EngineCatalog
    /\ regOutcome = NoCall
    /\ lastRegistered = [id \in PluginIds |-> MapGet(plugins, id)]
    /\ active = Invocations
    /\ inv = [i \in Invocations |-> IdleInvocation]
    /\ cParts = Undefined
    /\ cResponse = <<>>
    /\ cType = "text"
    /\ cValue = Undefined
    /\ cPhase = "unused"
    /\ validating = NotValidating
    /\ ingesting = NotIngesting
    /\ prompting = NotPrompting

NextConcurrent ==
    \E i \in Invocations :
        \/ Start(i) /\ ConcurrentInputs'
        \/ InitializeFails(i) /\ ConcurrentInputs'
        \/ Prepare(i) /\ ConcurrentInputs'
        \/ PromptReadFails(i) /\ ConcurrentInputs'
        \/ PromptRenderFails(i) /\ ConcurrentInputs'
        \/ CallClient(i) /\ ConcurrentInputs'
        \/ ClientFails(i) /\ ConcurrentInputs'
        \/ ClientResponds(i) /\ ConcurrentInputs'
        \/ TemplateReadFails(i) /\ ConcurrentInputs'
        \/ TemplateRenderFails(i) /\ ConcurrentInputs'
        \/ Return(i) /\ ConcurrentInputs'

SpecConcurrent == InitConcurrent /\ [][NextConcurrent]_vars

(***************************************************************************)
(* The registry alone: any sequence of register, unregister, getPlugin,    *)
(* clear, hasPlugin, listPlugins and getStats, on plugins of every         *)
(* combination of declared and implemented ingestion methods.              *)
(***************************************************************************)
RegistryPool ==
    [inst : 1..MaxInstances,
     id : PluginIds,
     version : {"1.0.0"},
     description : {"plugin"},
     getIngestionCapabilities : {"returns"},
     capabilities : [file : BOOLEAN, api : BOOLEAN,
                     fileFormats : {TRUE}, apiEndpoints : {FALSE}],
     ingestFromFile : BOOLEAN,
     ingestFromAPI : {TRUE},
     getAPIQuerySchema : {FALSE},
     generate : {TRUE},
     getSpecifications : {TRUE},
     getPromptsDir : {TRUE},
     getTemplatesDir : {TRUE},
     promptsDir : {"prompts"},
     templatesDir : {"templates"},
     initialize : {FALSE}]
    \cup
    [inst : {1},
     id : {"patent", ""},
     version : {"1.0.0", ""},
     description : {"plugin"},
     getIngestionCapabilities : {"returns", "throws", "missing"},
     capabilities : [file : {FALSE}, api : {TRUE},
                     fileFormats : {TRUE}, apiEndpoints : {FALSE}],
     ingestFromFile : {FALSE},
     ingestFromAPI : BOOLEAN,
     getAPIQuerySchema : {FALSE},
     generate : BOOLEAN,
     getSpecifications : {TRUE},
     getPromptsDir : {TRUE},
     getTemplatesDir : {TRUE},
     promptsDir : {"prompts"},
     templatesDir : {"templates"},
     initialize : {FALSE}]

LookupIds == PluginIds \cup {"unknown"}

InitRegistry ==
    /\ plugins = EmptyCatalog
    /\ regOutcome = NoCall
    /\ lastRegistered = NoneRegistered
    /\ active = {}
    /\ inv = <<>>
    /\ cParts = Undefined
    /\ cResponse = <<>>
    /\ cType = "text"
    /\ cValue = Undefined
    /\ cPhase = "unused"
    /\ validating = NotValidating
    /\ ingesting = NotIngesting
    /\ prompting = NotPrompting

Register ==
    /\ \E plugin \in RegistryPool : register(plugin)
    /\ UNCHANGED <<engineVars, coerceVars, validating, ingesting, prompting>>

Unregister ==
    /\ \E pluginId \in LookupIds : unregister(pluginId)
    /\ UNCHANGED <<engineVars, coerceVars, validating, ingesting, prompting>>

GetPlugin ==
    /\ \E pluginId \in LookupIds : getPlugin(pluginId)
    /\ UNCHANGED <<engineVars, coerceVars, validating, ingesting, prompting>>

Clear ==
    /\ clear
    /\ UNCHANGED <<engineVars, coerceVars, validating, ingesting, prompting>>

HasPlugin ==
    /\ \E pluginId \in LookupIds : hasPlugin(pluginId)
    /\ UNCHANGED <<engineVars, coerceVars, validating, ingesting, prompting>>

ListPlugins ==
    /\ listPlugins
    /\ UNCHANGED <<engineVars, coerceVars, validating, ingesting, prompting>>

GetStats ==
    /\ getStats
    /\ UNCHANGED <<engineVars, coerceVars, validating, ingesting, prompting>>

NextRegistry ==
    Register \/ Unregister \/ GetPlugin \/ Clear \/ HasPlugin \/ ListPlugins \/ GetStats

SpecRegistry == InitRegistry /\ [][NextRegistry]_vars

(***************************************************************************)
(* One invocation of generateReport while other callers of the registry    *)
(* unregister plugins, clear the catalog and register new instances over   *)
(* the registered ids, at any of the invocation's awaits.                  *)
(***************************************************************************)
\* the instances registered over the ids: they name other directories
Replacements ==
    {[EnginePlugin(id, FALSE) EXCEPT !.inst = 2,
                                     !.promptsDir = "other prompts",
                                     !.templatesDir = "other templates"] :
        id \in PluginIds}

InitMutating ==
    /\ plugins = EngineCatalog
    /\ regOutcome = NoCall
    /\ lastRegistered = [id \in PluginIds |-> MapGet(plugins, id)]
    /\ active = {1}
    /\ inv = [i \in Invocations |-> IdleInvocation]
    /\ cParts = Undefined
    /\ cResponse = <<>>
    /\ cType = "text"
    /\ cValue = Undefined
    /\ cPhase = "unused"
    /\ validating = NotValidating
    /\ ingesting = NotIngesting
    /\ prompting = NotPrompting

RegisterOver ==
    /\ \E plugin \in Replacements : register(plugin)
    /\ UNCHANGED <<engineVars, coerceVars, validating, ingesting, prompting>>

NextMutating == NextConcurrent \/ RegisterOver \/ Unregister \/ Clear

SpecMutating == InitMutating /\ [][NextMutating]_vars

(***************************************************************************)
(* The validator alone: validatePlugin called up to MaxCalls times on one  *)
(* plugin, of any combination of identity properties, capability           *)
(* descriptor and methods, and PluginRegistry.validatePlugin called on the *)
(* registry.                                                               *)
(***************************************************************************)
MaxCalls == 2

ValidationPool ==
    [inst : {1},
     id : {"patent", ""},
     version : {"1.0.0"},
     description : {"plugin", ""},
     getIngestionCapabilities : {"returns", "throws", "missing"},
     capabilities : [file : BOOLEAN, api : BOOLEAN, fileFormats : BOOLEAN,
                     apiEndpoints : {FALSE}],
     ingestFromFile : BOOLEAN,
     ingestFromAPI : BOOLEAN,
     getAPIQuerySchema : {FALSE},
     generate : BOOLEAN,
     getSpecifications : BOOLEAN,
     getPromptsDir : BOOLEAN,
     getTemplatesDir : BOOLEAN,
     promptsDir : {"prompts"},
     templatesDir : {"templates"},
     initialize : {FALSE}]

InitValidate ==
    /\ \E plugin \in ValidationPool :
           validating = [phase |-> "calls", given |-> plugin, plugin |-> plugin,
                         results |-> <<>>]
    /\ plugins = EngineCatalog
    /\ regOutcome = NoCall
    /\ lastRegistered = [id \in PluginIds |-> MapGet(plugins, id)]
    /\ active = {}
    /\ inv = <<>>
    /\ cParts = Undefined
    /\ cResponse = <<>>
    /\ cType = "text"
    /\ cValue = Undefined
    /\ cPhase = "unused"
    /\ ingesting = NotIngesting
    /\ prompting = NotPrompting

\* a validator that fills in the description it misses
ValidateFillingIn ==
    /\ Len(validating.results) < MaxCalls
    /\ validating' =
           [validating EXCEPT !.results = Append(@, validatePlugin(validating.plugin)),
                              !.plugin.description = "plugin"]
    /\ UNCHANGED <<registryVars, engineVars, coerceVars, ingesting, prompting>>

\* validatePlugin(plugin), plugin-config.ts lines 372-496
Validate ==
    /\ Len(validating.results) < MaxCalls
    /\ validating' =
           [validating EXCEPT !.results = Append(@, validatePlugin(validating.plugin))]
    /\ UNCHANGED <<registryVars, engineVars, coerceVars, ingesting, prompting>>

\* PluginRegistry.validatePlugin(pluginId), plugin-registry.ts lines 110-114
RegistryValidate ==
    /\ \E pluginId \in LookupIds :
           regOutcome' =
               Returned("validatePlugin", pluginId,
                        IF MapHas(plugins, pluginId)
                        THEN validatePlugin(MapGet(plugins, pluginId))
                        ELSE Null,
                        <<>>)
    /\ UNCHANGED <<plugins, lastRegistered, engineVars, coerceVars, validating,
                   ingesting, prompting>>

NextValidate == Validate \/ RegistryValidate

SpecValidate == InitValidate /\ [][NextValidate]_vars

(***************************************************************************)
(* The prompt context on its own: generateVariable's lines 211-238 and     *)
(* resolveInputReference, applied to the context generateReport has built  *)
(* after some earlier variables were stored, for a variable that declares  *)
(* up to MaxInputs input references.                                       *)
(***************************************************************************)
MaxInputs == 2

\* input references, each the sequence reference.split(".") makes of it
References ==
    { <<"bundle">>, <<"bundle", "stats">>, <<"bundle", "stats", "total">>,
      <<"bundle", "samples", "main">>, <<"bundle", "metadata", "source_file">>,
      <<"bundle", "missing", "title">>, <<"bundle", "records", "0", "title">>,
      <<"ctx", "summary">>, <<"ctx", "bundle", "stats">>,
      <<"title">>, <<"summary">>, <<"a", "b">> }

\* the names of the variables generated before, in the order they were stored
EarlierNames ==
    { <<>>, <<"summary">>, <<"bundle">>, <<"metadata">>, <<"timestamp">>, <<"stats">>,
      <<"a.b">>, <<"summary", "summary">>, <<"summary", "metadata">>,
      <<"samples", "summary">> }

\* the value stored for the n-th variable
Generated(n) == Str(<<"generated", Numerals[n + 1]>>)

\* the context after the loop of lines 353-362 stored the earlier variables
ContextAfter(options, earlier) ==
    LET after[n \in 0..Len(earlier)] ==
            IF n = 0 THEN InitialContext(options)
            ELSE Store(after[n - 1], [name |-> earlier[n]], Generated(n))
    IN  after[Len(earlier)]

InitPrompt ==
    /\ \E options \in ConcurrentOptions, earlier \in EarlierNames,
          inputs \in UNION {[1..n -> References] : n \in 0..MaxInputs} :
           prompting = [op |-> "idle", options |-> options, earlier |-> earlier,
                        context |-> ContextAfter(options, earlier),
                        inputs |-> inputs, reference |-> <<>>, value |-> Undefined,
                        bound |-> <<>>, promptContext |-> <<>>]
    /\ plugins = EngineCatalog
    /\ regOutcome = NoCall
    /\ lastRegistered = [id \in PluginIds |-> MapGet(plugins, id)]
    /\ active = {}
    /\ inv = <<>>
    /\ cParts = Undefined
    /\ cResponse = <<>>
    /\ cType = "text"
    /\ cValue = Undefined
    /\ cPhase = "unused"
    /\ validating = NotValidating
    /\ ingesting = NotIngesting

PromptFrame ==
    UNCHANGED <<registryVars, engineVars, coerceVars, validating, ingesting>>

\* resolveInputReference(input, context), for one of the declared inputs
ResolveInput ==
    /\ prompting.op = "idle"
    /\ \E n \in 1..Len(prompting.inputs) :
           prompting' =
               [prompting EXCEPT
                    !.op = "resolveInputReference",
                    !.reference = prompting.inputs[n],
                    !.value = resolveInputReference(prompting.inputs[n],
                                                    prompting.context)]
    /\ PromptFrame

\* lines 211-238: bound is the prompt context after the loop over the inputs
BuildPromptContext ==
    /\ prompting.op = "idle"
    /\ prompting' =
           [prompting EXCEPT
                !.op = "promptContext",
                !.bound = BindInputs(BaseContext(prompting.context), prompting.inputs,
                                     1, prompting.context),
                !.promptContext = PromptContext([inputs |-> prompting.inputs],
                                                prompting.context)]
    /\ PromptFrame

NextPrompt == ResolveInput \/ BuildPromptContext

SpecPrompt == InitPrompt /\ [][NextPrompt]_vars

(***************************************************************************)
(* Registry entries (plugin-config.ts): the validators of an entry's       *)
(* fields, validatePluginEntry and generateClassNameFromId, applied to one *)
(* value drawn from EntryPool.                                             *)
(***************************************************************************)
\* the regular expression class [a-z0-9]
IsLowerAlnum(c) == IsLower(c) \/ c \in DecimalDigits

\* the regular expression class [a-zA-Z0-9]
IsAlnum(c) == IsLowerAlnum(c) \/ IsUpper(c)

\* String.prototype.split, on a separator of one character
RECURSIVE Split(_, _)
Split(s, sep) ==
    LET at == {i \in 1..Len(s) : s[i] = sep}
    IN  IF at = {} THEN <<s>>
        ELSE LET first == CHOOSE i \in at : \A j \in at : i <= j
             IN  <<Take(s, first - 1)>> \o Split(Drop(s, first), sep)

\* /^[a-z0-9]([a-z0-9-]*[a-z0-9])?$/ and the length 1 to 50
validatePluginId(id) ==
    /\ id.kind = "string"
    /\ Len(id.val) >= 1
    /\ IsLowerAlnum(id.val[1])
    /\ IsLowerAlnum(id.val[Len(id.val)])
    /\ \A i \in 1..Len(id.val) : IsLowerAlnum(id.val[i]) \/ id.val[i] = "-"
    /\ Len(id.val) <= 50

\* the checks in the order of the code: the suffix, the first character (there
\* is one, the suffix has six), the characters, the length
validateClassName(className) ==
    /\ className.kind = "string"
    /\ EndsWith(className.val, <<"P", "l", "u", "g", "i", "n">>)
    /\ IsUpper(className.val[1])
    /\ \A i \in 1..Len(className.val) : IsAlnum(className.val[i])
    /\ ~(Len(className.val) < 8 \/ Len(className.val) > 100)

\* /^@[a-z0-9-]+\/[a-z0-9-]+$/ or /^[a-z0-9-]+$/
validatePackageName(packageName) ==
    /\ packageName.kind = "string"
    /\ LET s == packageName.val
           name(t) == Len(t) >= 1 /\ \A i \in 1..Len(t) : IsLowerAlnum(t[i]) \/ t[i] = "-"
           halves == Split(Drop(s, 1), "/")
           isScoped ==
               /\ Len(s) >= 1 /\ s[1] = "@"
               /\ Len(halves) = 2 /\ name(halves[1]) /\ name(halves[2])
           isRegular == name(s)
       IN  isScoped \/ isRegular

\* the semantic-versioning expression: three numbers without leading zeros, then
\* an optional "-" and dot-separated pre-release identifiers, then an optional
\* "+" and dot-separated build identifiers
validateVersion(version) ==
    /\ version.kind = "string"
    /\ LET s == version.val
           plus == {i \in 1..Len(s) : s[i] = "+"}
           build == IF plus = {} THEN <<>>
                    ELSE Drop(s, CHOOSE i \in plus : \A j \in plus : i <= j)
           front == IF plus = {} THEN s ELSE Take(s, Len(s) - Len(build) - 1)
           dash == {i \in 1..Len(front) : front[i] = "-"}
           pre == IF dash = {} THEN <<>>
                  ELSE Drop(front, CHOOSE i \in dash : \A j \in dash : i <= j)
           core == IF dash = {} THEN front ELSE Take(front, Len(front) - Len(pre) - 1)
           word(t) == Len(t) >= 1 /\ \A i \in 1..Len(t) : IsAlnum(t[i]) \/ t[i] = "-"
           digits(t) == \A i \in 1..Len(t) : t[i] \in DecimalDigits
           number(t) == Len(t) >= 1 /\ digits(t) /\ (t[1] = "0" => Len(t) = 1)
           all(parts, ok(_)) == \A i \in 1..Len(parts) : ok(parts[i])
           preId(t) == number(t) \/ (word(t) /\ ~digits(t))
       IN  /\ Len(Split(core, ".")) = 3
           /\ all(Split(core, "."), number)
           /\ dash # {} => all(Split(pre, "."), preId)
           /\ plus # {} => all(Split(build, "."), word)

\* one entry of the errors array; value is the field value a message quotes
Message(field, text, value) == [field |-> field, text |-> text, value |-> value]

\* if (!value) push(missing) else if (!ok) push(invalid)
FieldErrors(field, value, ok, missing, invalid) ==
    IF ~Truthy(value) THEN <<Message(field, missing, Undefined)>>
    ELSE IF ~ok THEN <<Message(field, invalid, value)>>
    ELSE <<>>

\* the checks of the fields of an entry, plugin-config.ts lines 214-278
EntryErrors(entry) ==
    LET id == Prop(entry, "id")
        name == Prop(entry, "name")
        className == Prop(entry, "className")
        packageName == Prop(entry, "packageName")
        description == Prop(entry, "description")
        version == Prop(entry, "version")
        supportedDataTypes == Prop(entry, "supportedDataTypes")
        nonEmptyString(v) == v.kind = "string" /\ Len(v.val) # 0
    IN  FieldErrors("id", id, validatePluginId(id),
                    "Plugin must have an 'id' field", "Invalid plugin id")
        \o FieldErrors("name", name, nonEmptyString(name),
                       "Plugin must have a 'name' field",
                       "Plugin name must be a non-empty string")
        \o FieldErrors("className", className, validateClassName(className),
                       "Plugin must have a 'className' field", "Invalid className")
        \o FieldErrors("packageName", packageName, validatePackageName(packageName),
                       "Plugin must have a 'packageName' field", "Invalid packageName")
        \o FieldErrors("description", description, nonEmptyString(description),
                       "Plugin must have a 'description' field",
                       "Plugin description must be a non-empty string")
        \o FieldErrors("version", version, validateVersion(version),
                       "Plugin must have a 'version' field", "Invalid version")
        \o FieldErrors("supportedDataTypes", supportedDataTypes,
                       /\ IsArray(supportedDataTypes)
                       /\ Len(supportedDataTypes.val) # 0
                       /\ \A i \in 1..Len(supportedDataTypes.val) :
                              supportedDataTypes.val[i].kind = "string",
                       "Plugin must have a 'supportedDataTypes' field",
                       IF ~IsArray(supportedDataTypes)
                       THEN "supportedDataTypes must be an array"
                       ELSE IF Len(supportedDataTypes.val) = 0
                       THEN "supportedDataTypes must have at least one data type"
                       ELSE "All supportedDataTypes must be strings")

\* reading a property of null or undefined
TypeError == [name |-> "TypeError", message |-> "Cannot read properties"]

\* a validator that goes to the fields without the type check
validatePluginEntryUnchecked(entry) ==
    IF entry.kind \in {"null", "undefined"}
    THEN Threw("validatePluginEntry", entry, TypeError)
    ELSE Returned("validatePluginEntry", entry,
                  [valid |-> Len(EntryErrors(entry)) = 0, errors |-> EntryErrors(entry)],
                  <<>>)

\* validatePluginEntry(entry), plugin-config.ts lines 200-284; typeof is
\* "object" for an object, an array and null
validatePluginEntry(entry) ==
    IF entry.kind \notin {"object", "array"}
    THEN Returned("validatePluginEntry", entry,
                  [valid |-> FALSE,
                   errors |-> <<Message("entry", "Plugin entry must be an object",
                                        Undefined)>>],
                  <<>>)
    ELSE Returned("validatePluginEntry", entry,
                  [valid |-> Len(EntryErrors(entry)) = 0, errors |-> EntryErrors(entry)],
                  <<>>)

\* generateClassNameFromId(pluginId), plugin-config.ts lines 312-318
generateClassNameFromId(pluginId) ==
    LET parts == Split(pluginId.val, "-")
        pascal(part) ==
            IF part = <<>> THEN <<>>
            ELSE <<ToUpper(part[1])>> \o [i \in 1..(Len(part) - 1) |-> ToLower(part[i + 1])]
        join[n \in 0..Len(parts)] == IF n = 0 THEN <<>> ELSE join[n - 1] \o pascal(parts[n])
    IN  Str(join[Len(parts)] \o <<"P", "l", "u", "g", "i", "n">>)

Repeat(c, n) == [i \in 1..n |-> c]

\* an entry every check accepts
ValidEntry ==
    [id |-> Str(<<"p", "a", "t", "e", "n", "t">>),
     name |-> Str(<<"P", "a", "t", "e", "n", "t">>),
     className |-> Str(<<"P", "a", "t", "e", "n", "t", "P", "l", "u", "g", "i", "n">>),
     packageName |-> Str(<<"@", "o", "r", "g", "/", "p", "l", "u", "g", "i", "n">>),
     description |-> Str(<<"d">>),
     version |-> Str(<<"1", ".", "0", ".", "0">>),
     supportedDataTypes |-> Arr(<<Str(<<"c", "s", "v">>)>>)]

\* per field, the values tried in its place
FieldValues ==
    [id |-> {Undefined, Null, Num(<<"0">>), Num(<<"1">>), Str(<<>>),
             Str(<<"a">>), Str(<<"a", "b">>), Str(<<"a", "-", "b">>),
             Str(<<"m", "y", "-", "-", "d", "a", "t", "a">>),
             Str(<<"-", "a">>), Str(<<"a", "-">>), Str(<<"A", "b">>),
             Str(<<"1", "a">>), Str(<<"a", "1">>), Str(<<"a", " ", "b">>),
             Str(Repeat("a", 50)), Str(Repeat("a", 51))},
     name |-> {Undefined, Str(<<>>), Num(<<"1">>), Arr(<<>>)},
     className |-> {Undefined, Num(<<"1">>),
                    Str(<<"P", "l", "u", "g", "i", "n">>),
                    Str(<<"A", "P", "l", "u", "g", "i", "n">>),
                    Str(<<"A", "b", "P", "l", "u", "g", "i", "n">>),
                    Str(<<"a", "b", "P", "l", "u", "g", "i", "n">>),
                    Str(<<"1", "b", "P", "l", "u", "g", "i", "n">>),
                    Str(<<"A", "-", "P", "l", "u", "g", "i", "n">>),
                    Str(<<"P", "a", "t", "e", "n", "t">>),
                    Str(Repeat("A", 94) \o <<"P", "l", "u", "g", "i", "n">>),
                    Str(Repeat("A", 95) \o <<"P", "l", "u", "g", "i", "n">>)},
     packageName |-> {Undefined, Obj([name |-> Str(<<"p">>)]),
                      Str(<<"p", "-", "1">>), Str(<<"@", "o", "/", "p">>),
                      Str(<<"@", "o">>), Str(<<"@", "/", "p">>),
                      Str(<<"o", "/", "p">>), Str(<<"@", "o", "/", "p", "/", "q">>),
                      Str(<<"P">>)},
     description |-> {Undefined, Null, Str(<<>>), Num(<<"1">>)},
     version |-> {Undefined, Num(<<"1">>),
                  Str(<<"1", ".", "0">>), Str(<<"0", "1", ".", "0", ".", "0">>),
                  Str(<<"1", "0", ".", "2", ".", "0">>),
                  Str(<<"1", ".", "0", ".", "0", "-", "r", "c", ".", "1">>),
                  Str(<<"1", ".", "0", ".", "0", "-", "0", "1">>),
                  Str(<<"1", ".", "0", ".", "0", "-", "0", "a", "-", "b">>),
                  Str(<<"1", ".", "0", ".", "0", "-">>),
                  Str(<<"1", ".", "0", ".", "0", "+", "0", "1", ".", "b">>),
                  Str(<<"1", ".", "0", ".", "0", "+", "a", "+", "b">>),
                  Str(<<"1", ".", "0", ".", "0", "-", "a", "+", "b", "-", "c">>),
                  Str(<<"v", "1", ".", "0", ".", "0">>)},
     supportedDataTypes |-> {Undefined, Str(<<"c", "s", "v">>), Arr(<<>>),
                             Arr(<<Str(<<"c", "s", "v">>), Num(<<"1">>)>>),
                             Arr(<<Str(<<"c", "s", "v">>), Str(<<"x", "m", "l">>)>>)}]

EntryFields == DOMAIN ValidEntry

\* the values handed to validatePluginEntry: values that are no entry, the valid
\* entry with one field replaced, and the valid entry with any fields left out
EntryPool ==
    {Null, Undefined, Str(<<"p", "a", "t", "e", "n", "t">>), Num(<<"1">>), Arr(<<>>)}
    \cup UNION {{Obj([ValidEntry EXCEPT ![f] = v]) : v \in FieldValues[f]} :
                f \in EntryFields}
    \cup {Obj([f \in EntryFields \ left |-> ValidEntry[f]]) : left \in SUBSET EntryFields}

InitEntry ==
    /\ \E entry \in EntryPool :
           validating = [phase |-> "entry", entry |-> entry, outcome |-> NoCall]
    /\ plugins = EmptyCatalog
    /\ regOutcome = NoCall
    /\ lastRegistered = NoneRegistered
    /\ active = {}
    /\ inv = <<>>
    /\ cParts = Undefined
    /\ cResponse = <<>>
    /\ cType = "text"
    /\ cValue = Undefined
    /\ cPhase = "unused"
    /\ ingesting = NotIngesting
    /\ prompting = NotPrompting

\* validatePluginEntry(entry)
ValidateEntry ==
    /\ validating' = [validating EXCEPT !.outcome = validatePluginEntry(validating.entry)]
    /\ UNCHANGED <<registryVars, engineVars, coerceVars, ingesting, prompting>>

\* generateClassNameFromId(entry.id), for an entry whose id is a string
GenerateClassName ==
    /\ Prop(validating.entry, "id").kind = "string"
    /\ validating' =
           [validating EXCEPT !.outcome =
                Returned("generateClassNameFromId", Prop(validating.entry, "id"),
                         generateClassNameFromId(Prop(validating.entry, "id")), <<>>)]
    /\ UNCHANGED <<registryVars, engineVars, coerceVars, ingesting, prompting>>

NextEntry == ValidateEntry \/ GenerateClassName

SpecEntry == InitEntry /\ [][NextEntry]_vars

(***************************************************************************)
(* ReportEngine.ingestData, called once on a plugin that need not have     *)
(* passed validatePlugin.  pc is "idle" before the call, the method        *)
(* awaited while it is suspended, "returned" or "threw" after it; invoked  *)
(* lists the ingestion methods of the plugin that were called.             *)
(***************************************************************************)
IngestPool ==
    [inst : {1},
     id : {"patent"},
     version : {"1.0.0"},
     description : {"plugin"},
     getIngestionCapabilities : {"returns", "throws", "missing"},
     capabilities : [file : BOOLEAN, api : BOOLEAN, fileFormats : {TRUE},
                     apiEndpoints : {FALSE}],
     ingestFromFile : BOOLEAN,
     ingestFromAPI : BOOLEAN,
     getAPIQuerySchema : {FALSE},
     generate : {TRUE},
     getSpecifications : {TRUE},
     getPromptsDir : {TRUE},
     getTemplatesDir : {TRUE},
     promptsDir : {"prompts"},
     templatesDir : {"templates"},
     initialize : {FALSE}]

\* DataIngestionOptions: a filePath or a query that is not given is "" or undefined
IngestOptions ==
    [type : {"file", "api", "stream"},
     filePath : {"", "data.csv"},
     query : {Undefined, Obj(<<>>)}]

UnsupportedIngestionError(pluginId, method, capabilities) ==
    [name |-> "UnsupportedIngestionError", pluginId |-> pluginId,
     requestedMethod |-> method, capabilities |-> capabilities]

\* the call of a property that is no function
NotAFunction == [name |-> "TypeError", message |-> "is not a function"]

Fails(error) == [threw |-> TRUE, error |-> error, awaits |-> "none"]

Awaits(method) == [threw |-> FALSE, error |-> Undefined, awaits |-> method]

\* an ingestData that goes by the methods the plugin has, not by its descriptor
ingestDataByImplementation(plugin, options) ==
    IF plugin.getIngestionCapabilities = "missing" THEN Fails(NotAFunction)
    ELSE IF plugin.getIngestionCapabilities = "throws"
    THEN Fails(ErrorFrom("getIngestionCapabilities"))
    ELSE IF options.type = "file"
    THEN IF ~plugin.ingestFromFile
         THEN Fails(UnsupportedIngestionError(plugin.id, "file", plugin.capabilities))
         ELSE IF options.filePath = "" THEN Fails(EngineError("filePath is required"))
         ELSE Awaits("ingestFromFile")
    ELSE IF options.type = "api"
    THEN IF ~plugin.ingestFromAPI
         THEN Fails(UnsupportedIngestionError(plugin.id, "api", plugin.capabilities))
         ELSE IF ~Truthy(options.query) THEN Fails(EngineError("query is required"))
         ELSE Awaits("ingestFromAPI")
    ELSE Fails(EngineError("Unknown ingestion type"))

\* ingestData up to its await, lines 105-147 and 166
ingestData(plugin, options) ==
    IF plugin.getIngestionCapabilities = "missing" THEN Fails(NotAFunction)
    ELSE IF plugin.getIngestionCapabilities = "throws"
    THEN Fails(ErrorFrom("getIngestionCapabilities"))
    ELSE LET capabilities == plugin.capabilities
         IN  IF options.type = "file"
             THEN IF ~capabilities.file
                  THEN Fails(UnsupportedIngestionError(plugin.id, "file", capabilities))
                  ELSE IF ~plugin.ingestFromFile
                  THEN Fails(EngineError("ingestFromFile not implemented"))
                  ELSE IF options.filePath = ""
                  THEN Fails(EngineError("filePath is required"))
                  ELSE Awaits("ingestFromFile")
             ELSE IF options.type = "api"
             THEN IF ~capabilities.api
                  THEN Fails(UnsupportedIngestionError(plugin.id, "api", capabilities))
                  ELSE IF ~plugin.ingestFromAPI
                  THEN Fails(EngineError("ingestFromAPI not implemented"))
                  ELSE IF ~Truthy(options.query)
                  THEN Fails(EngineError("query is required"))
                  ELSE Awaits("ingestFromAPI")
             ELSE Fails(EngineError("Unknown ingestion type"))

InitIngest ==
    /\ \E plugin \in IngestPool, options \in IngestOptions :
           ingesting = [pc |-> "idle", plugin |-> plugin, options |-> options,
                        invoked |-> <<>>, error |-> Undefined, result |-> Undefined]
    /\ validating = NotValidating
    /\ plugins = EmptyCatalog
    /\ regOutcome = NoCall
    /\ lastRegistered = NoneRegistered
    /\ active = {}
    /\ inv = <<>>
    /\ cParts = Undefined
    /\ cResponse = <<>>
    /\ cType = "text"
    /\ cValue = Undefined
    /\ cPhase = "unused"
    /\ prompting = NotPrompting

IngestFrame ==
    UNCHANGED <<registryVars, engineVars, coerceVars, validating, prompting>>

\* the call, up to the throw or the await
Ingest ==
    /\ ingesting.pc = "idle"
    /\ LET step == ingestData(ingesting.plugin, ingesting.options)
       IN  ingesting' =
               IF step.threw
               THEN [ingesting EXCEPT !.pc = "threw", !.error = step.error]
               ELSE [ingesting EXCEPT !.pc = step.awaits,
                                      !.invoked = Append(@, step.awaits)]
    /\ IngestFrame

\* plugin.ingestFromFile resolves with a bundle, which ingestData returns (line 123)
IngestFromFileResolves ==
    /\ ingesting.pc = "ingestFromFile"
    /\ \E bundle \in Bundles :
           ingesting' = [ingesting EXCEPT !.pc = "returned", !.result = bundle]
    /\ IngestFrame

\* plugin.ingestFromAPI resolves with {bundle, apiMetadata}; ingestData returns the
\* bundle (lines 144-163)
IngestFromAPIResolves ==
    /\ ingesting.pc = "ingestFromAPI"
    /\ \E bundle \in Bundles :
           ingesting' = [ingesting EXCEPT !.pc = "returned", !.result = bundle]
    /\ IngestFrame

\* the awaited method rejects
IngestionRejects ==
    /\ ingesting.pc \in {"ingestFromFile", "ingestFromAPI"}
    /\ ingesting' = [ingesting EXCEPT !.pc = "threw", !.error = ErrorFrom(ingesting.pc)]
    /\ IngestFrame

NextIngest ==
    \/ Ingest
    \/ IngestFromFileResolves
    \/ IngestFromAPIResolves
    \/ IngestionRejects

SpecIngest == InitIngest /\ [][NextIngest]_vars

(***************************************************************************)
(* The coercion alone: a response is put together from a JSON (or other)   *)
(* text, an opening and a closing marker and white space, and coerced.     *)
(***************************************************************************)
\* texts that are JSON arrays
ArrayTexts ==
    { Brackets(<<>>),
      Brackets(Lit(<<"a">>)),
      Brackets(Lit(<<"a">>) \o <<COMMA>> \o Lit(<<"b">>)),
      Brackets(<<SP>> \o Lit(<<"a">>) \o <<SP, COMMA, NL>> \o Lit(<<"b">>) \o <<NL>>),
      Brackets(<<"1", COMMA>> \o Lit(<<"a", SP, "b">>)),
      Brackets(Brackets(Lit(<<"a">>)) \o <<COMMA, "1", "2">>),
      Brackets(Lit(<<"j", "s", "o", "n">>)),
      Brackets(Lit(Fence)),
      Brackets(Lit(<<NBSP>>)) }

\* texts that are not: other JSON values, and texts JSON.parse rejects
OtherTexts ==
    { <<>>,
      Lit(<<"a">>),
      <<"1", "2">>,
      <<"a", SP, "b">>,
      <<LBRACKET>> \o Lit(<<"a">>),
      Brackets(Lit(<<"a">>) \o <<COMMA>>),
      Brackets(Lit(<<"a", NL, "b">>)),
      Brackets(<<NBSP>>),
      Brackets(<<"a">>),
      Brackets(Lit(<<"a">>)) \o <<"a">> }

Openers == {<<>>, Fence, JsonFence, <<BT, BT, BT, "J", "S", "O", "N">>}

Closers == {<<>>, Fence}

Gaps == {<<>>, <<NL>>, <<SP, NL>>, <<NBSP>>}

Pads == {<<>>, <<NL, SP>>}

ResponseParts ==
    [lead : Pads, opener : Openers, before : Gaps, body : ArrayTexts \cup OtherTexts,
     after : Gaps, closer : Closers, trail : Pads]

Assemble(p) ==
    p.lead \o p.opener \o p.before \o p.body \o p.after \o p.closer \o p.trail

InitCoerce ==
    /\ cParts \in ResponseParts
    /\ cResponse = Assemble(cParts)
    /\ cType \in VarTypes
    /\ cValue = Undefined
    /\ cPhase = "input"
    /\ plugins = EmptyCatalog
    /\ regOutcome = NoCall
    /\ lastRegistered = NoneRegistered
    /\ active = {}
    /\ inv = <<>>
    /\ validating = NotValidating
    /\ ingesting = NotIngesting
    /\ prompting = NotPrompting

\* lines 246-268 of generateVariable applied to the response
Coerce ==
    /\ cPhase = "input"
    /\ cValue' = CoerceResponse(cType, cResponse)
    /\ cPhase' = "coerced"
    /\ UNCHANGED <<cParts, cResponse, cType, registryVars, engineVars, validating, ingesting, prompting>>

NextCoerce == Coerce

SpecCoerce == InitCoerce /\ [][NextCoerce]_vars

IsArrayText(text) == JSONParse(text).ok /\ IsArray(JSONParse(text).value)

\* the response is the text bare, or the text between an opening and a closing marker
BareOrFenced(p) == (p.opener = <<>>) <=> (p.closer = <<>>)

\* C9: a string_list response that is a JSON array, bare or wrapped in a code fence
\* (an opening marker with or without the json tag, a closing marker, white space
\* around them), is coerced to the list that parsing the bare array gives; so the
\* fenced and the unfenced forms of one array are coerced to the same list.
C9_FencedArrayCoercesAsBare ==
    (/\ cPhase = "coerced"
     /\ cType = "string_list"
     /\ BareOrFenced(cParts)
     /\ IsArrayText(cParts.body))
        => cValue = JSONParse(cParts.body).value

C9_Witness ==
    /\ cPhase = "coerced"
    /\ cType = "string_list"
    /\ cParts.opener = JsonFence
    /\ cParts.before = <<NL>>
    /\ cParts.body = Brackets(Lit(<<"a">>) \o <<COMMA>> \o Lit(<<"b">>))
    /\ cParts.after = <<NL>>
    /\ cParts.closer = Fence
    /\ cValue = Arr(<<Str(<<"a">>), Str(<<"b">>)>>)

(***************************************************************************)
(* Claims about the registry, checked under SpecRegistry.                  *)
(***************************************************************************)
\* C4: register of a plugin that fails validatePlugin throws a
\* PluginValidationError that carries the errors validatePlugin listed, and the
\* catalog after the call is the catalog before it (an entry already registered
\* under the same id stays).
C4_InvalidRegisterThrowsCatalogKept ==
    [][(/\ regOutcome'.op = "register"
        /\ ~validatePlugin(regOutcome'.arg).valid)
          => (/\ regOutcome'.threw
              /\ regOutcome'.error =
                     PluginValidationError(regOutcome'.arg.id,
                                           validatePlugin(regOutcome'.arg).errors)
              /\ plugins' = plugins)]_vars

C4_Witness ==
    /\ regOutcome.op = "register"
    /\ regOutcome.threw
    /\ regOutcome.error.name = "PluginValidationError"
    /\ regOutcome.error.errors = <<"ingestFromFile">>
    /\ MapHas(plugins, regOutcome.arg.id)
    /\ MapGet(plugins, regOutcome.arg.id).inst # regOutcome.arg.inst

C17_DeclaredMethodMissingRejected ==
    [][\A method \in {"file", "api"} :
           LET plugin == regOutcome'.arg
               name == IF method = "file" THEN "ingestFromFile" ELSE "ingestFromAPI"
               Mentions(errors) == \E n \in 1..Len(errors) : errors[n] = name
           IN  (/\ regOutcome'.op = "register"
                /\ plugin.getIngestionCapabilities = "returns"
                /\ plugin.capabilities[method]
                /\ ~plugin[name])
                   => (/\ ~validatePlugin(plugin).valid
                       /\ Mentions(validatePlugin(plugin).errors)
                       /\ regOutcome'.threw
                       /\ regOutcome'.error.name = "PluginValidationError"
                       /\ Mentions(regOutcome'.error.errors)
                       /\ plugins' = plugins)]_vars

\* register threw for a plugin that declares api: true, has no ingestFromAPI and
\* lacks generate as well
C17_Witness ==
    /\ regOutcome.op = "register"
    /\ regOutcome.threw
    /\ regOutcome.arg.capabilities.api
    /\ ~regOutcome.arg.ingestFromAPI
    /\ ~regOutcome.arg.generate
    /\ \E n \in 1..Len(regOutcome.error.errors) :
           regOutcome.error.errors[n] = "ingestFromAPI"

(***************************************************************************)
(* Claims about generateReport, checked under Spec.                        *)
(***************************************************************************)
\* the keys the context is seeded with
BaseKeys == {"bundle", "stats", "samples", "timestamp", "title"}

\* the names of the first k variables of the invocation's specification
Names(r, k) == {Variables(r)[j].name : j \in 1..k}

\* the last of the first k variables that has the name
LastOf(r, name, k) ==
    CHOOSE j \in 1..k :
        /\ Variables(r)[j].name = name
        /\ \A later \in (j + 1)..k : Variables(r)[later].name # name

\* the variables started so far are the first ones of the specification, in order
InOrder(r) == \A j \in 1..Len(r.started) : r.started[j] = j

\* C1 (as the code has it): generateReport generates the variables in exactly the
\* declared order, and when the generation of variable k starts the context holds,
\* under each name declared by v0..v(k-1), the value stored for the last of them
\* that has this name, the seeded value under each base key that none of them
\* re-declares, and no other key; a returned invocation has started every variable.
C1_OrderAndContextLastValueWins ==
    \A i \in active :
        LET r == inv[i]
            k == r.position - 1
        IN  /\ InOrder(r)
            /\ r.pc = "returned" => Len(r.started) = Len(Variables(r))
            /\ r.pc = "readPrompt" =>
                   /\ Len(r.started) = r.position
                   /\ Len(r.stored) = k
                   /\ DOMAIN r.context = BaseKeys \cup Names(r, k)
                   /\ \A name \in Names(r, k) :
                          r.context[name] = r.stored[LastOf(r, name, k)]
                   /\ \A key \in BaseKeys \ Names(r, k) :
                          r.context[key] = InitialContext(r.options)[key]

\* the third variable starts after two variables of one name were stored with
\* different values: the context holds the second value
C1_Witness ==
    \E i \in active :
        /\ inv[i].pc = "readPrompt"
        /\ inv[i].position = 3
        /\ Variables(inv[i])[1].name = Variables(inv[i])[2].name
        /\ inv[i].stored[1] # inv[i].stored[2]
        /\ inv[i].context[Variables(inv[i])[2].name] = inv[i].stored[2]

\* C1 as claimed: when the generation of variable k starts, the context holds the
\* stored value of every one of v0..v(k-1), of no later variable, and the base keys.
C1_ContextHoldsEveryStoredValue ==
    \A i \in active :
        LET r == inv[i]
            k == r.position - 1
        IN  r.pc = "readPrompt" =>
                /\ InOrder(r)
                /\ DOMAIN r.context = BaseKeys \cup Names(r, k)
                /\ \A j \in 1..k : r.context[Variables(r)[j].name] = r.stored[j]

\* C2: in one invocation at most one client call is outstanding, the call for
\* variable k+1 is issued only after the response for variable k was coerced and
\* stored in the context (its prompt is rendered against that value), no position
\* is sent to the client twice, and a returned invocation has issued exactly one
\* call for each declared variable.
C2_OneCallAtATimeOncePerVariable ==
    \A i \in active :
        LET r == inv[i]
        IN  /\ r.pending = IF r.pc = "generateText" THEN 1 ELSE 0
            /\ Len(r.stored) = Len(r.responses)
            /\ Len(r.calls) = Len(r.responses) + r.pending
                                  + (IF r.error = ErrorFrom("generateText") THEN 1 ELSE 0)
            /\ \A j \in 1..Len(r.calls) : r.calls[j].position = j
            /\ \A j \in 2..Len(r.calls) :
                   r.calls[j].prompt.context[Variables(r)[j - 1].name] = r.stored[j - 1]
            /\ r.pc = "returned" => Len(r.calls) = Len(Variables(r))

C2_Witness ==
    \E i \in active :
        /\ inv[i].pc = "returned"
        /\ Len(Variables(inv[i])) >= 2
        /\ Len(inv[i].calls) = Len(Variables(inv[i]))

\* the errors of a prompt file read, a client call, a template read and a rendering
Failures == {ErrorFrom("readFile"), ErrorFrom("generateText"), ErrorFrom("renderString")}

\* C3: when a prompt file read, a client call, or the read or the rendering of the
\* final template fails, the invocation fails with that error, returns no result,
\* has no call outstanding, never renders the final template, and does nothing
\* more: no call for a later variable is issued.
C3_FailureAbortsWithoutResult ==
    [][\A i \in active :
           /\ (inv[i].pc = "readPrompt" /\ inv'[i].error # Undefined) =>
                  inv'[i].error \in {ErrorFrom("readFile"), ErrorFrom("renderString")}
           /\ (inv[i].pc = "generateText" /\ inv'[i].error # Undefined) =>
                  inv'[i].error = ErrorFrom("generateText")
           /\ (inv[i].pc = "readTemplate" /\ inv'[i].error # Undefined) =>
                  inv'[i].error \in {ErrorFrom("readFile"), ErrorFrom("renderString")}
           /\ inv'[i].error \in Failures =>
                  /\ inv'[i].pc = "threw"
                  /\ inv'[i].result = Undefined
                  /\ ~inv'[i].rendered
                  /\ inv'[i].pending = 0
                  /\ inv[i].error \in Failures => inv'[i] = inv[i]]_vars

\* the client call for the second of three variables failed: one response was
\* stored, and the third variable was never started
C3_Witness ==
    \E i \in active :
        /\ inv[i].pc = "threw"
        /\ inv[i].error = ErrorFrom("generateText")
        /\ Len(Variables(inv[i])) = 3
        /\ Len(inv[i].calls) = 2
        /\ inv[i].started = <<1, 2>>
        /\ inv[i].result = Undefined

NotFoundFirst(r, message) ==
    /\ r.pc = "threw"
    /\ r.error = EngineError(message)
    /\ r.reads = <<>>
    /\ r.calls = <<>>

\* C7: an invocation whose plugin id is not registered, or whose specification id
\* is no key of the table getSpecifications returned, fails with a not-found error
\* before any prompt or template file is read and before any client call.
C7_NotFoundBeforeReadsAndCalls ==
    \A i \in active :
        LET r == inv[i]
        IN  /\ (r.pc # "idle" /\ ~MapHas(plugins, r.options.pluginId)) =>
                   NotFoundFirst(r, "Plugin not found")
            /\ (/\ r.pc \notin {"idle", "initialize"}
                /\ MapHas(plugins, r.options.pluginId)
                /\ r.error # ErrorFrom("initialize")
                /\ r.options.specificationId \notin DOMAIN r.specifications) =>
                   NotFoundFirst(r, "Specification not found")

\* the table has a specification, but not under the requested id
C7_Witness ==
    \E i \in active :
        /\ inv[i].pc = "threw"
        /\ inv[i].options.specificationId = "missing"
        /\ DOMAIN inv[i].specifications = {"default"}
        /\ inv[i].error = EngineError("Specification not found")
        /\ inv[i].reads = <<>>
        /\ inv[i].calls = <<>>

\* the serialized forms the claim lists: malformed, empty, parsed to nothing, and
\* parsed to a structure without a variables list
Unusable(text) ==
    \/ text.form \in {"malformed", "empty string", "no content"}
    \/ text.form = "mapping" /\ "variables" \notin DOMAIN text.parsed.val

ParseErrors == {ErrorFrom("yaml.load"), EngineError("Failed to parse specification")}

\* C8 as claimed: when the requested specification's serialized form is malformed,
\* empty, or parses to an empty or undefined structure or to one without a variables
\* list, generateReport fails with a specification parse error before the client is
\* created and before any file is read.
C8_UnusableSpecificationIsParseError ==
    \A i \in active :
        LET r == inv[i]
            id == r.options.specificationId
        IN  (/\ r.pc # "idle"
             /\ id \in DOMAIN r.specifications
             /\ Unusable(r.specifications[id])) =>
                /\ r.pc = "threw"
                /\ r.error \in ParseErrors
                /\ r.llmClient = Undefined
                /\ r.reads = <<>>

\* C10: coercion of a string_list response never aborts the generation: the stored
\* value is a list; when the response without its fence is no JSON, or JSON that is
\* no list, the stored value is the list of one element, the trimmed raw response;
\* and generation goes on to the next variable, or to the template after the last.
C10_StringListFallbackGoesOn ==
    [][\A i \in active :
           (/\ inv[i].pc = "generateText"
            /\ Len(inv'[i].responses) = Len(inv[i].responses) + 1
            /\ VarDef(inv[i]).type = "string_list") =>
               LET n == inv[i].position
                   response == inv'[i].responses[n]
                   value == inv'[i].stored[n]
                   parsed == JSONParse(CleanResponse(response))
               IN  /\ IsArray(value)
                   /\ ~(parsed.ok /\ IsArray(parsed.value)) =>
                          value = Arr(<<Str(Trim(response))>>)
                   /\ inv'[i].context[VarDef(inv[i]).name] = value
                   /\ inv'[i].error = Undefined
                   /\ IF n < Len(Variables(inv[i]))
                      THEN inv'[i].pc = "readPrompt" /\ inv'[i].position = n + 1
                      ELSE inv'[i].pc = "readTemplate"]_vars

\* a fenced response that is no JSON was stored whole, trimmed, as the one element
\* of a list, and the next variable was started
C10_Witness ==
    \E i \in active :
        /\ inv[i].pc = "readPrompt"
        /\ inv[i].position = 2
        /\ Variables(inv[i])[1].type = "string_list"
        /\ inv[i].responses[1] = Fence \o <<NL, "a", NL>> \o Fence \o <<NL>>
        /\ inv[i].stored[1] = Arr(<<Str(Fence \o <<NL, "a", NL>> \o Fence)>>)

\* C11 as claimed: the value stored for a variable of any type other than
\* string_list is the client's response with the white space at its two ends
\* removed.
C11_FreeTextStoredTrimmed ==
    \A i \in active :
        LET r == inv[i]
        IN  \A j \in 1..Len(r.stored) :
                Variables(r)[j].type # "string_list" =>
                    r.stored[j] = Str(Trim(r.responses[j]))

\* C12 as claimed: the context that generateReport builds before the first variable,
\* and that the final template is rendered against, has the keys bundle, stats,
\* samples, metadata, timestamp and title, with stats equal to bundle.stats and
\* metadata equal to bundle.metadata.
C12_ContextSeededWithMetadata ==
    \A i \in active :
        LET r == inv[i]
            bundle == r.options.bundle
            Seeded(context) ==
                /\ {"bundle", "stats", "samples", "metadata", "timestamp", "title"}
                       \subseteq DOMAIN context
                /\ context["stats"] = Prop(bundle, "stats")
                /\ context["metadata"] = Prop(bundle, "metadata")
        IN  /\ (r.pc = "readPrompt" /\ r.position = 1) => Seeded(r.context)
            /\ r.pc = "returned" => Seeded(r.result.content.trimmed.context)

\* C13: generateReport never changes the bundle it was given: whether it is still
\* running, has returned or has thrown, the bundle's source, records, stats,
\* metadata and samples are what they were at the call, whatever the names and
\* inputs of the variables and the responses of the client.
C13_BundleNeverMutated ==
    \A i \in active :
        inv[i].pc # "idle" =>
            /\ inv[i].bundle = inv[i].options.bundle
            /\ \A key \in {"source", "records", "stats", "metadata", "samples"} :
                   Prop(inv[i].bundle, key) = Prop(inv[i].options.bundle, key)

\* a variable named bundle, with an input taken from the bundle, was generated and
\* stored, and the report returned
C13_Witness ==
    \E i \in active :
        /\ inv[i].pc = "returned"
        /\ \E j \in 1..Len(Variables(inv[i])) :
               /\ Variables(inv[i])[j].name = "bundle"
               /\ Len(Variables(inv[i])[j].inputs) > 0
        /\ inv[i].context["bundle"].kind = "string"
        /\ inv[i].bundle = inv[i].options.bundle

\* C15: a successful generateReport returns as content the trimmed rendering of the
\* final template against the context that holds every declared variable, rendered
\* only after the last variable was stored, and as metadata the requested plugin id,
\* the provider and the model of the supplied client configuration, and the number
\* of records of the bundle.
C15_ResultOfSuccessfulRun ==
    \A i \in active :
        LET r == inv[i]
            n == Len(Variables(r))
        IN  /\ r.rendered => r.pc = "returned"
            /\ r.pc = "returned" =>
                   /\ r.rendered
                   /\ Len(r.stored) = n
                   /\ Names(r, n) \subseteq DOMAIN r.context
                   /\ \A name \in Names(r, n) :
                          r.context[name] = r.stored[LastOf(r, name, n)]
                   /\ r.result.content
                          = [trimmed |-> Rendering(TemplatePath(r), r.context)]
                   /\ r.reads[Len(r.reads)] = TemplatePath(r)
                   /\ r.result.metadata.pluginId = r.options.pluginId
                   /\ r.result.metadata.provider = r.options.llmConfig.provider
                   /\ r.result.metadata.model = r.options.llmConfig.model
                   /\ r.result.metadata.recordCount
                          = Len(Prop(r.options.bundle, "records").val)

\* a report of two differently named variables over a bundle of two records
C15_Witness ==
    \E i \in active :
        /\ inv[i].pc = "returned"
        /\ Len(Variables(inv[i])) = 2
        /\ Variables(inv[i])[1].name # Variables(inv[i])[2].name
        /\ inv[i].result.metadata.recordCount = 2
        /\ inv[i].result.metadata.pluginId = "patent"
        /\ inv[i].result.content.trimmed.context[Variables(inv[i])[2].name]
               = inv[i].stored[2]

(***************************************************************************)
(* Claims about interleaved invocations, checked under SpecConcurrent.     *)
(***************************************************************************)
RECURSIVE OwnContext(_, _)
\* the context made of the invocation's own options and of the first k values it
\* stored itself
OwnContext(r, k) ==
    IF k = 0 THEN InitialContext(r.options)
    ELSE Store(OwnContext(r, k - 1), Variables(r)[k], r.stored[k])

\* C14: when two invocations of generateReport on one engine and registry are
\* interleaved at their awaits, each has a context of its own: the context of an
\* invocation, the context of each of its prompts and the context its final template
\* is rendered against are made of its own options and of the values it stored
\* itself, so a value stored by the other invocation is in none of them.
C14_ContextOwnedByInvocation ==
    \A i \in active :
        LET r == inv[i]
        IN  IF r.llmClient = Undefined
            THEN r.context = <<>> /\ r.calls = <<>>
            ELSE /\ r.context = OwnContext(r, Len(r.stored))
                 /\ \A j \in 1..Len(r.calls) :
                        r.calls[j].prompt.context =
                            PromptContext(Variables(r)[j], OwnContext(r, j - 1))
                 /\ r.pc = "returned" =>
                        r.result.content.trimmed.context
                            = OwnContext(r, Len(Variables(r)))

\* the first invocation stored its summary and awaits the client for its topics,
\* while the second, whose specification has no summary, awaits the client too: the
\* prompt context of the second has no summary
C14_Witness ==
    /\ inv[1].pc = "generateText"
    /\ inv[1].position = 2
    /\ "summary" \in DOMAIN inv[1].context
    /\ inv[2].pc = "generateText"
    /\ inv[2].position = 1
    /\ "summary" \notin DOMAIN inv[2].calls[1].prompt.context
    /\ "summary" \notin DOMAIN inv[2].context

(***************************************************************************)
(* Claims about validatePlugin, checked under SpecValidate.                *)
(***************************************************************************)
\* C16: validatePlugin returns valid = true exactly when its errors list is empty, on
\* every return path, the early returns for a missing and for a throwing
\* getIngestionCapabilities included; the warnings have no part in valid.
C16_ValidIffNoErrors ==
    /\ validating.phase = "calls" =>
           \A n \in 1..Len(validating.results) :
               validating.results[n].valid <=> Len(validating.results[n].errors) = 0
    /\ regOutcome.op = "validatePlugin" /\ regOutcome.value # Null =>
           (regOutcome.value.valid <=> Len(regOutcome.value.errors) = 0)

\* a plugin was found valid although it has warnings
C16_Witness ==
    /\ validating.phase = "calls"
    /\ Len(validating.results) > 0
    /\ validating.results[1].valid
    /\ Len(validating.results[1].warnings) > 0

\* the four methods every plugin must have
RequiredMethods == {"generate", "getSpecifications", "getPromptsDir", "getTemplatesDir"}

Named(errors) == {errors[n] : n \in 1..Len(errors)}

\* C18 (as the code has it): a plugin that lacks one of generate, getSpecifications,
\* getPromptsDir and getTemplatesDir is never valid; its errors name the missing
\* method, whatever else is wrong with it, when its getIngestionCapabilities is
\* there and returns.  When getIngestionCapabilities is missing or throws,
\* validatePlugin returns before it looks at the four methods.
C18_MissingMethodNamedAfterCapabilities ==
    validating.phase = "calls" =>
        \A n \in 1..Len(validating.results) :
            \A method \in RequiredMethods :
                ~validating.plugin[method] =>
                    /\ ~validating.results[n].valid
                    /\ validating.plugin.getIngestionCapabilities = "returns" =>
                           method \in Named(validating.results[n].errors)
                    /\ validating.plugin.getIngestionCapabilities # "returns" =>
                           RequiredMethods \cap Named(validating.results[n].errors) = {}

\* a plugin without id, without the ingestFromFile it declares and without
\* getPromptsDir: the errors name getPromptsDir among the others
C18_Witness ==
    /\ validating.phase = "calls"
    /\ Len(validating.results) > 0
    /\ validating.plugin.id = ""
    /\ validating.plugin.capabilities.file
    /\ ~validating.plugin.ingestFromFile
    /\ ~validating.plugin.getPromptsDir
    /\ {"id", "ingestFromFile", "getPromptsDir"}
           \subseteq Named(validating.results[1].errors)

\* C18 as claimed: for each of the four required methods, the errors of a plugin
\* that lacks the method name it, regardless of what else is wrong with the plugin.
C18_MissingMethodAlwaysNamed ==
    validating.phase = "calls" =>
        \A n \in 1..Len(validating.results) :
            \A method \in RequiredMethods :
                ~validating.plugin[method] =>
                    method \in Named(validating.results[n].errors)

C20_UnsupportedMethodRefused ==
    \A method \in {"file", "api"} :
        (/\ ingesting.pc \notin {"unused", "idle"}
         /\ ingesting.options.type = method
         /\ ingesting.plugin.getIngestionCapabilities = "returns"
         /\ ~ingesting.plugin.capabilities[method])
            => /\ ingesting.pc = "threw"
               /\ ingesting.error =
                      UnsupportedIngestionError(ingesting.plugin.id, method,
                                                ingesting.plugin.capabilities)
               /\ ingesting.invoked = <<>>
               /\ ingesting.result = Undefined

\* file ingestion was asked of a plugin that has ingestFromFile and a file path to
\* read, but declares file: false
C20_Witness ==
    /\ ingesting.pc = "threw"
    /\ ingesting.options.type = "file"
    /\ ingesting.options.filePath = "data.csv"
    /\ ingesting.plugin.ingestFromFile
    /\ ~ingesting.plugin.capabilities.file
    /\ ingesting.plugin.capabilities.api
    /\ ingesting.error.name = "UnsupportedIngestionError"
    /\ ingesting.invoked = <<>>

(***************************************************************************)
(* Claims about the validation of registry entries, under SpecEntry.       *)
(***************************************************************************)
\* C21: validatePluginEntry never throws, whatever it is given (null, a value
\* that is no object, an entry with fields missing or of the wrong type): it
\* returns {valid, errors} with valid true exactly when errors is empty, and for
\* an entry that is an object errors holds a message about each of id, name,
\* className, packageName, description, version and supportedDataTypes that is
\* missing or malformed, and about no other field.
C21_EntryValidationTotal ==
    validating.phase = "entry" /\ validating.outcome.op = "validatePluginEntry" =>
        LET entry == validating.entry
            result == validating.outcome.value
            about(f) == \E i \in 1..Len(result.errors) : result.errors[i].field = f
            stringOf(v) == v.kind = "string" /\ v.val # <<>>
            wellFormed(f, v) ==
                CASE f = "id" -> validatePluginId(v)
                  [] f = "className" -> validateClassName(v)
                  [] f = "packageName" -> validatePackageName(v)
                  [] f = "version" -> validateVersion(v)
                  [] f \in {"name", "description"} -> stringOf(v)
                  [] f = "supportedDataTypes" ->
                         /\ v.kind = "array" /\ v.val # <<>>
                         /\ \A i \in 1..Len(v.val) : stringOf(v.val[i])
        IN  /\ ~validating.outcome.threw
            /\ result.valid \in BOOLEAN
            /\ result.valid <=> result.errors = <<>>
            /\ entry.kind \notin {"object", "array"} => ~result.valid
            /\ entry.kind \in {"object", "array"} =>
                   \A f \in EntryFields :
                       about(f) <=> (Prop(entry, f) = Undefined \/ ~wellFormed(f, Prop(entry, f)))

\* an entry whose id is a number was validated: the call returned one message,
\* about the id
C21_Witness ==
    /\ validating.phase = "entry"
    /\ validating.outcome.op = "validatePluginEntry"
    /\ ~validating.outcome.threw
    /\ validating.entry.kind = "object"
    /\ Prop(validating.entry, "id") = Num(<<"1">>)
    /\ ~validating.outcome.value.valid
    /\ Len(validating.outcome.value.errors) = 1
    /\ validating.outcome.value.errors[1].field = "id"

\* C30: for every id validatePluginId accepts, generateClassNameFromId(id) is a
\* class name validateClassName accepts: it starts with an uppercase letter, is
\* alphanumeric throughout, ends in "Plugin" and has 8 to 100 characters.
C30_GeneratedClassNameAccepted ==
    (/\ validating.phase = "entry"
     /\ validating.outcome.op = "generateClassNameFromId"
     /\ validatePluginId(validating.outcome.arg))
        => validateClassName(validating.outcome.value)

\* the class name suggested for the accepted id "a-b" is "ABPlugin"
C30_Witness ==
    /\ validating.phase = "entry"
    /\ validating.outcome.op = "generateClassNameFromId"
    /\ validating.outcome.arg = Str(<<"a", "-", "b">>)
    /\ validatePluginId(validating.outcome.arg)
    /\ validating.outcome.value = Str(<<"A", "B", "P", "l", "u", "g", "i", "n">>)

(***************************************************************************)
(* Claims about the prompt context, under SpecPrompt.                      *)
(***************************************************************************)
\* C22: in the prompt context of a variable every variable generated earlier is
\* bound under its own name to the value stored for it, whether or not the
\* inputs list it, except that a variable named bundle, stats, samples or
\* metadata does not replace that base entry, which stays what the input bundle
\* (or an input bound under that name) gives.
C22_EarlierVariablesBoundBaseKept ==
    prompting.op = "promptContext" =>
        LET earlier == prompting.earlier
            bundle == prompting.options.bundle
            base == [bundle |-> bundle,
                     stats |-> Prop(bundle, "stats"),
                     samples |-> Or(Prop(Prop(bundle, "samples"), "main"),
                                    Prop(bundle, "samples")),
                     metadata |-> Prop(bundle, "metadata")]
            last(name) == CHOOSE n \in 1..Len(earlier) :
                              /\ earlier[n] = name
                              /\ \A m \in (n + 1)..Len(earlier) : earlier[m] # name
            isInput(name) ==
                \E n \in 1..Len(prompting.inputs) :
                    name = (IF Len(prompting.inputs[n]) > 2
                            THEN prompting.inputs[n][Len(prompting.inputs[n]) - 1]
                            ELSE prompting.inputs[n][Len(prompting.inputs[n])])
        IN  \A n \in 1..Len(earlier) :
                IF earlier[n] \in DOMAIN base
                THEN isInput(earlier[n])
                         \/ prompting.promptContext[earlier[n]] = base[earlier[n]]
                ELSE /\ earlier[n] \in DOMAIN prompting.promptContext
                     /\ prompting.promptContext[earlier[n]] = Generated(last(earlier[n]))

C24_ReferenceResolution ==
    prompting.op = "resolveInputReference" =>
        LET parts == prompting.reference
            context == prompting.context
            reached(root) ==
                LET at[n \in 1..Len(parts)] ==
                        IF n = 1 THEN root
                        ELSE IF at[n - 1].kind = "object" /\ parts[n] \in DOMAIN at[n - 1].val
                        THEN at[n - 1].val[parts[n]]
                        ELSE IF at[n - 1].kind = "array"
                        THEN Prop(at[n - 1], parts[n])
                        ELSE Undefined
                IN  at[Len(parts)]
        IN  /\ prompting.value.kind # "thrown"
            /\ parts[1] = "bundle" => prompting.value = reached(context["bundle"])
            /\ parts[1] = "ctx" => prompting.value = reached(Obj(context))
            /\ parts[1] \notin {"bundle", "ctx"} =>
                   prompting.value = IF Dotted(parts) \in DOMAIN context
                                     THEN context[Dotted(parts)]
                                     ELSE Undefined

\* bundle.missing.title was resolved against a bundle that has no property
\* missing: the result is undefined
C24_Witness ==
    /\ prompting.op = "resolveInputReference"
    /\ prompting.reference = <<"bundle", "missing", "title">>
    /\ prompting.context["bundle"] = prompting.options.bundle
    /\ Prop(prompting.context["bundle"], "missing") = Undefined
    /\ prompting.value = Undefined

\* C28: in the prompt context of every variable bundle is the input bundle,
\* stats is its stats and metadata is its metadata, whatever inputs the variable
\* declares and whatever the earlier variables are called.
C28_BaseEntriesFixed ==
    prompting.op = "promptContext" =>
        /\ prompting.promptContext["bundle"] = prompting.options.bundle
        /\ prompting.promptContext["stats"] = Prop(prompting.options.bundle, "stats")
        /\ prompting.promptContext["metadata"] = Prop(prompting.options.bundle, "metadata")

(***************************************************************************)
(* Further claims about the registry, under SpecRegistry.                  *)
(***************************************************************************)
\* C25: unregister(id) returns true exactly when id was registered, and after it
\* id is not registered and every other entry is as it was; clear leaves the
\* catalog empty; hasPlugin and listPlugins leave the catalog as it was; and
\* hasPlugin(id) is true exactly when getPlugin(id) would return an instance.
C25_RemovalAndQueries ==
    [][/\ regOutcome'.op = "unregister" =>
              /\ regOutcome'.value = MapHas(plugins, regOutcome'.arg)
              /\ ~MapHas(plugins', regOutcome'.arg)
              /\ \A id \in LookupIds \ {regOutcome'.arg} :
                     /\ MapHas(plugins', id) = MapHas(plugins, id)
                     /\ MapGet(plugins', id) = MapGet(plugins, id)
       /\ regOutcome'.op = "clear" =>
              /\ MapSize(plugins') = 0
              /\ \A id \in LookupIds : ~MapHas(plugins', id)
       /\ regOutcome'.op \in {"hasPlugin", "listPlugins"} => plugins' = plugins
       /\ regOutcome'.op = "hasPlugin" =>
              /\ regOutcome'.value \in BOOLEAN
              /\ regOutcome'.value <=> MapGet(plugins, regOutcome'.arg) # Undefined
      ]_vars

\* patent was unregistered while pubmed was registered too: the call returned
\* true and pubmed is the one entry left
C25_Witness ==
    /\ regOutcome.op = "unregister"
    /\ regOutcome.arg = "patent"
    /\ regOutcome.value = TRUE
    /\ MapSize(plugins) = 1
    /\ MapHas(plugins, "pubmed")

\* C26: every plugin of the catalog is stored under its own id and passes
\* validatePlugin, as it did when it was registered: it declares file or API
\* ingestion, and has the ingestion method of each kind it declares.
C26_CatalogHoldsValidatedPlugins ==
    \A n \in 1..Len(plugins) :
        LET plugin == plugins[n].value
        IN  /\ plugins[n].key = plugin.id
            /\ validatePlugin(plugin).valid
            /\ plugin.getIngestionCapabilities = "returns"
            /\ plugin.capabilities.file \/ plugin.capabilities.api
            /\ plugin.capabilities.file => plugin.ingestFromFile
            /\ plugin.capabilities.api => plugin.ingestFromAPI

\* the catalog holds a plugin that declares both kinds and one that declares
\* API ingestion only, after a register of an invalid plugin was refused
C26_Witness ==
    /\ MapSize(plugins) = 2
    /\ \E n \in 1..Len(plugins) :
           plugins[n].value.capabilities.file /\ plugins[n].value.capabilities.api
    /\ \E n \in 1..Len(plugins) : ~plugins[n].value.capabilities.file
    /\ regOutcome.op = "register"
    /\ regOutcome.threw

C29_ResolvedPluginKept ==
    [][\A i \in active :
           LET r == inv[i]
               after == inv'[i]
           IN  /\ (plugins' # plugins \/ regOutcome' # regOutcome) => after = r
               /\ (r.pc = "idle" /\ after.pc = "initialize") =>
                      after.plugin = MapGet(plugins, after.options.pluginId)
               /\ r.pc \notin {"idle", "threw"} => after.plugin = r.plugin
               /\ r.pc \notin {"idle", "initialize", "threw"} =>
                      /\ after.promptsDir = r.promptsDir
                      /\ after.templatesDir = r.templatesDir
                      /\ after.specifications = r.specifications
                      /\ after.spec = r.spec
               /\ after.pc \notin {"idle", "initialize", "threw"} =>
                      /\ after.promptsDir = after.plugin.promptsDir
                      /\ after.templatesDir = after.plugin.templatesDir
                      /\ InOrder(after)
                      /\ \A k \in 1..Len(after.reads) :
                             after.reads[k][1] \in {after.plugin.promptsDir,
                                                    after.plugin.templatesDir}
               /\ after.pc = "returned" =>
                      /\ after.result.content.trimmed.template =
                             <<after.plugin.templatesDir, after.spec.val.template_file>>
                      /\ after.result.metadata.pluginId = after.plugin.id
      ]_vars

\* the invocation returned a report of two variables made with the first
\* instance of patent, while the catalog holds the instance registered over it
C29_Witness ==
    /\ inv[1].pc = "returned"
    /\ Len(inv[1].calls) = 2
    /\ inv[1].plugin.inst = 1
    /\ inv[1].templatesDir = "templates"
    /\ MapHas(plugins, "patent")
    /\ MapGet(plugins, "patent").inst = 2
    /\ MapGet(plugins, "patent").templatesDir = "other templates"

====
